---- MODULE Spec2Model ----
(***************************************************************************)
(* BuildForge server (src/server/src/main.rs): the WebSocket session       *)
(* handler, the shared data store behind its RwLock, the detached build    *)
(* tasks and the dependency ordering of build nodes.                       *)
(***************************************************************************)
EXTENDS Integers, Sequences, FiniteSets, TLC

\* ------------------------------------------------------------------ bounds
\* Longest node list of a BuildStart payload explored by ExecSpec.
MaxNodes == 3
\* Longest edge list of a BuildStart payload explored by ExecSpec.
MaxEdges == 2
\* Total number of frames the sessions read.
MaxMsgs == 2
\* Longest workflow list / action list of a snapshot StoreSpec starts from.
MaxStored == 2
\* Longest node list of a BuildStart payload explored by ArmsSpec.
MaxArms == 2

\* The connect_server calls and the start_build calls of the desktop client.
MaxConnects == 2

MaxStarts == 2

\* --------------------------------------------------------------- alphabets
NodeIds == {"A", "B", "C"}

\* BuildNode.node_type of the nodes of the explored payloads.
NodeTypeOf(id) ==
    CASE id = "A" -> "command"
      [] id = "B" -> "script"
      [] OTHER    -> "artifact"

\* The node types execute_build has an arm for, and one it has none for.
NodeTypes == {"command", "script", "artifact", "release", "deploy"}

\* BuildNode.config, by what the arm of the node's type can do with it: "ok" is
\* a command whose cwd exists, a script whose shell can be started, an artifact
\* path that is a glob pattern (or none: "dist/*"); "bad" is a cwd that does not
\* exist, a shell that cannot be started, a path glob cannot parse.
Configs == {"ok", "bad"}

TypedNode(id, type, config) == [id |-> id, node_type |-> type, config |-> config]

BuildNode(id) == TypedNode(id, NodeTypeOf(id), "ok")

BuildEdge(s, t) == [source |-> s, target |-> t]

SeqsUpTo(S, n) == UNION {[1..k -> S] : k \in 0..n}

NodeLists == SeqsUpTo({BuildNode(id) : id \in NodeIds}, MaxNodes)

EdgeLists == SeqsUpTo({BuildEdge(s, t) : s \in NodeIds, t \in NodeIds}, MaxEdges)

\* --------------------------------------------------------- topological_sort
CircularError == "Circular dependency detected in build nodes"

IdsOf(nodes) == {nodes[i].id : i \in DOMAIN nodes}

\* in_degree: one entry per distinct node id, counting the edges whose target
\* is that id (whatever their source is).
in_degree(nodes, edges) ==
    [id \in IdsOf(nodes) |->
        Cardinality({i \in DOMAIN edges : edges[i].target = id})]

\* adjacency: one entry per distinct node id, the targets of the edges whose
\* source is that id, in edge order (targets that are no node included).
adjacency(nodes, edges) ==
    [id \in IdsOf(nodes) |->
        LET es == SelectSeq(edges, LAMBDA e : e.source = id)
        IN  [i \in 1..Len(es) |-> es[i].target]]

\* The orders in which the iteration over the in_degree HashMap can yield the
\* ids of in-degree 0: the initial queue.
initial_queues(nodes, edges) ==
    LET deg   == in_degree(nodes, edges)
        ready == {id \in DOMAIN deg : deg[id] = 0}
    IN  {q \in [1..Cardinality(ready) -> ready] :
            \A i, j \in DOMAIN q : i # j => q[i] # q[j]}

\* relax with the in-degree tested against 1: a target is queued when one of
\* its sources is still to come.
RECURSIVE relax_off_by_one(_, _, _)
relax_off_by_one(targets, degree, queue) ==
    IF targets = <<>>
    THEN [degree |-> degree, queue |-> queue]
    ELSE LET t == Head(targets)
         IN  IF t \in DOMAIN degree
             THEN LET d == degree[t] - 1
                  IN  relax_off_by_one(Tail(targets), [degree EXCEPT ![t] = d],
                                       IF d = 1 THEN Append(queue, t) ELSE queue)
             ELSE relax_off_by_one(Tail(targets), degree, queue)

\* The inner for loop over the targets of a popped id.
RECURSIVE relax(_, _, _)
relax(targets, degree, queue) ==
    IF targets = <<>>
    THEN [degree |-> degree, queue |-> queue]
    ELSE LET t == Head(targets)
         IN  IF t \in DOMAIN degree
             THEN LET d == degree[t] - 1
                  IN  relax(Tail(targets), [degree EXCEPT ![t] = d],
                            IF d = 0 THEN Append(queue, t) ELSE queue)
             ELSE relax(Tail(targets), degree, queue)

\* The while loop popping the queue.
RECURSIVE kahn(_, _, _, _)
kahn(queue, sorted_ids, degree, adj) ==
    IF queue = <<>>
    THEN sorted_ids
    ELSE LET id == Head(queue)
             r  == relax(adj[id], degree, Tail(queue))
         IN  kahn(r.queue, Append(sorted_ids, id), r.degree, adj)

\* node_map: collecting into a HashMap keeps the last node of each id.
node_map(nodes) ==
    [id \in IdsOf(nodes) |->
        nodes[CHOOSE i \in DOMAIN nodes :
                /\ nodes[i].id = id
                /\ \A j \in DOMAIN nodes : nodes[j].id = id => j <= i]]

\* topological_sort with the comparison of the lengths left out.
topological_sort_unchecked(nodes, edges, queue) ==
    LET sorted_ids == kahn(queue, <<>>, in_degree(nodes, edges),
                           adjacency(nodes, edges))
    IN  [ok |-> TRUE, err |-> "",
         nodes |-> [i \in 1..Len(sorted_ids) |-> node_map(nodes)[sorted_ids[i]]]]

\* topological_sort for one iteration order of the in_degree map.
topological_sort(nodes, edges, queue) ==
    LET sorted_ids == kahn(queue, <<>>, in_degree(nodes, edges),
                           adjacency(nodes, edges))
    IN  IF Len(sorted_ids) # Len(nodes)
        THEN [ok |-> FALSE, err |-> CircularError, nodes |-> <<>>]
        ELSE [ok |-> TRUE, err |-> "",
              nodes |-> [i \in 1..Len(sorted_ids) |-> node_map(nodes)[sorted_ids[i]]]]

\* ------------------------------------------------------------- the store
WorkflowIds == {"w1", "w2", "w3"}

ActionIds == {"a1", "a2"}

\* Stands for the fields of a StoredWorkflow / StoredAction other than id
\* (name, nodes, script, timestamps, ...).
Contents == {"x", "y"}

BuildIds == {"b1", "b2"}

Sessions == {1, 2}

StoredWorkflow(id, content) == [id |-> id, content |-> content]

StoredAction(id, content) == [id |-> id, content |-> content]

\* ServerData::default()
EmptyData ==
    [workflows |-> <<>>, actions |-> <<>>, repos |-> <<>>, build_history |-> <<>>]

\* The readings of the clock as to_rfc3339 writes them, from the earliest on.
Stamps == <<"T00", "T01", "T02", "T03", "T04", "T05", "T06", "T07", "T08", "T09">>

\* DateTime::to_rfc3339 of the reading taken t steps after the start.
to_rfc3339(t) == Stamps[t + 1]

\* The BuildRecord a build task pushes, now being chrono::Utc::now() at the
\* push: started_at and finished_at are both read there (finished_at is
\* Some(..), kept as its timestamp; "None" is the absent value).
BuildRecord(build_id, now) ==
    [id |-> build_id, workflow_id |-> "", status |-> "completed",
     started_at |-> to_rfc3339(now), finished_at |-> to_rfc3339(now),
     duration_ms |-> "None", logs |-> <<>>]

\* iter_mut().find(|w| w.id == new.id): the first position whose id matches, 0
\* when there is none.
find(coll, id) ==
    IF \E i \in DOMAIN coll : coll[i].id = id
    THEN CHOOSE i \in DOMAIN coll :
            /\ coll[i].id = id
            /\ \A j \in DOMAIN coll : coll[j].id = id => i <= j
    ELSE 0

\* upsert that removes the old entry and pushes the new one.
upsert_moves(coll, new) ==
    Append(SelectSeq(coll, LAMBDA e : e.id # new.id), new)

\* if let Some(existing) = find { *existing = new } else { push(new) }
upsert(coll, new) ==
    LET i == find(coll, new.id)
    IN  IF i # 0 THEN [coll EXCEPT ![i] = new] ELSE Append(coll, new)

\* The removal done with swap_remove: the last entry takes the freed place.
retain_swap_remove(coll, id) ==
    LET i == find(coll, id)
    IN  IF i = 0 THEN coll
        ELSE SubSeq([coll EXCEPT ![i] = coll[Len(coll)]], 1, Len(coll) - 1)

\* retain(|e| e.id != id)
retain(coll, id) == SelectSeq(coll, LAMBDA e : e.id # id)

\* ------------------------------------------------------ server-data.json
\* JSON values: null, a string, an array, an object (its members in the order
\* they are written).
JNull == <<"null">>

JStr(str) == <<"str", str>>

JArr(items) == <<"arr", items>>

JObj(members) == <<"obj", members>>

\* What is left of the file when the write stopped part-way.
Truncated == <<"truncated">>

\* Serialize of Option<String>: None is null.
ser_option(o) == IF o = "None" THEN JNull ELSE JStr(o)

\* #[derive(Serialize)] of the stored structs: one member per field.
ser_entry(e) == JObj(<< <<"id", JStr(e.id)>>, <<"content", JStr(e.content)>> >>)

ser_record(r) ==
    JObj(<< <<"id", JStr(r.id)>>, <<"workflow_id", JStr(r.workflow_id)>>,
            <<"status", JStr(r.status)>>, <<"started_at", JStr(r.started_at)>>,
            <<"finished_at", ser_option(r.finished_at)>>,
            <<"duration_ms", ser_option(r.duration_ms)>>,
            <<"logs", JArr([i \in DOMAIN r.logs |-> JStr(r.logs[i])])>> >>)

\* Serialize of Vec<T>: the array of the serialized items.
ser_entries(items) == JArr([i \in DOMAIN items |-> ser_entry(items[i])])

ser_records(items) == JArr([i \in DOMAIN items |-> ser_record(items[i])])

\* A serialization that leaves build_history out (#[serde(skip_serializing)]).
to_string_pretty_without_history(data) ==
    JObj(<< <<"workflows", ser_entries(data.workflows)>>,
            <<"actions", ser_entries(data.actions)>>,
            <<"repos", ser_entries(data.repos)>> >>)

\* serde_json::to_string_pretty(self)
to_string_pretty(data) ==
    JObj(<< <<"workflows", ser_entries(data.workflows)>>,
            <<"actions", ser_entries(data.actions)>>,
            <<"repos", ser_entries(data.repos)>>,
            <<"build_history", ser_records(data.build_history)>> >>)

\* Deserialize: the member of an object under a key.
has_member(obj, key) == \E i \in DOMAIN obj[2] : obj[2][i][1] = key

member(obj, key) == obj[2][CHOOSE i \in DOMAIN obj[2] : obj[2][i][1] = key][2]

IsObj(j, keys) == j[1] = "obj" /\ \A k \in keys : has_member(j, k)

IsStr(j) == j[1] = "str"

IsOption(j) == j[1] \in {"null", "str"}

de_option(j) == IF j[1] = "null" THEN "None" ELSE j[2]

entry_ok(j) ==
    /\ IsObj(j, {"id", "content"})
    /\ IsStr(member(j, "id"))
    /\ IsStr(member(j, "content"))

de_entry(j) == [id |-> member(j, "id")[2], content |-> member(j, "content")[2]]

record_ok(j) ==
    /\ IsObj(j, {"id", "workflow_id", "status", "started_at", "finished_at",
                 "duration_ms", "logs"})
    /\ IsStr(member(j, "id"))
    /\ IsStr(member(j, "workflow_id"))
    /\ IsStr(member(j, "status"))
    /\ IsStr(member(j, "started_at"))
    /\ IsOption(member(j, "finished_at"))
    /\ IsOption(member(j, "duration_ms"))
    /\ member(j, "logs")[1] = "arr"
    /\ \A i \in DOMAIN member(j, "logs")[2] : IsStr(member(j, "logs")[2][i])

de_record(j) ==
    [id |-> member(j, "id")[2], workflow_id |-> member(j, "workflow_id")[2],
     status |-> member(j, "status")[2],
     started_at |-> member(j, "started_at")[2],
     finished_at |-> de_option(member(j, "finished_at")),
     duration_ms |-> de_option(member(j, "duration_ms")),
     logs |-> [i \in DOMAIN member(j, "logs")[2] |-> member(j, "logs")[2][i][2]]]

\* Deserialize of Vec<T>: an array whose items all decode.
entries_ok(j) == j[1] = "arr" /\ \A i \in DOMAIN j[2] : entry_ok(j[2][i])

de_entries(j) == [i \in DOMAIN j[2] |-> de_entry(j[2][i])]

records_ok(j) == j[1] = "arr" /\ \A i \in DOMAIN j[2] : record_ok(j[2][i])

de_records(j) == [i \in DOMAIN j[2] |-> de_record(j[2][i])]

\* serde_json::from_str::<ServerData>(&content): Err unless the text is an
\* object with the four collections, each an array of well-formed entries.
from_str(content) ==
    IF /\ IsObj(content, {"workflows", "actions", "repos", "build_history"})
       /\ entries_ok(member(content, "workflows"))
       /\ entries_ok(member(content, "actions"))
       /\ entries_ok(member(content, "repos"))
       /\ records_ok(member(content, "build_history"))
    THEN [ok |-> TRUE,
          data |-> [workflows |-> de_entries(member(content, "workflows")),
                    actions |-> de_entries(member(content, "actions")),
                    repos |-> de_entries(member(content, "repos")),
                    build_history |-> de_records(member(content, "build_history"))]]
    ELSE [ok |-> FALSE, data |-> EmptyData]

\* The content of a file read_to_string cannot read (no permission, not
\* UTF-8, a directory).
Unreadable == <<"unreadable">>

\* ServerData::load of a file: Ok(default) when there is none, else the error
\* of read_to_string, or the decoded content or the decode error.
load(file) ==
    IF ~file.exists THEN [ok |-> TRUE, data |-> EmptyData]
    ELSE IF file.content = Unreadable THEN [ok |-> FALSE, data |-> EmptyData]
    ELSE from_str(file.content)

\* Result::unwrap_or_default
unwrap_or_default(r) == IF r.ok THEN r.data ELSE EmptyData

\* The file before the server ever wrote it; result is what the last call of
\* ServerData::save returned ("none" before the first call).
NoFile == [exists |-> FALSE, content |-> JNull, result |-> "none"]

\* ---------------------------------------------------------------- messages
\* The working directory: the temporary script files in it, each a pair of
\* its path and its text, and the entries
\* glob yields for the path of an artifact node, in glob's order; an entry is a
\* path or the error of a directory that cannot be read. What the child
\* processes of the nodes write there is not followed.
EmptyDir == [scripts |-> {}, dist |-> <<>>]

GlobEntry(ok, path) == [ok |-> ok, path |-> path]

\* workdir.join(format!(".buildforge-{}.sh", build_id))
script_path(build_id) == <<".buildforge-", build_id, ".sh">>

\* tokio::fs::write(path, text): the file is created or replaced.
fs_write(files, path, text) == {f \in files : f[1] # path} \cup {<<path, text>>}

\* tokio::fs::remove_file(path): the file is gone, whoever wrote it; the error
\* of a file that does not exist is dropped (let _ =).
remove_file(files, path) == {f \in files : f[1] # path}

\* What a shell started with the path finds there: the text of the file, or
\* no file.
NotFound == "not found"

fs_read(files, path) ==
    IF \E f \in files : f[1] = path
    THEN (CHOOSE f \in files : f[1] = path)[2]
    ELSE NotFound

\* A decoded ServerMessage: its variant, the id it carries (workflow id,
\* action id or build id) and the content / graph of its payload.
Msg(type, id, body) ==
    [type |-> type, id |-> id, body |-> body, github_token |-> "None"]

\* A BuildStart whose payload carries a github_token.
WithToken(m, github_token) == [m EXCEPT !.github_token = github_token]

\* The graphs the BuildStart payloads of the sessions carry: no node at all
\* ("empty"), one command node ("single"), one command node whose cwd does not
\* exist ("nostart"), a command node before a script node ("chain"), the two
\* depending on each other ("cycle").
GraphNodes(g) ==
    CASE g = "empty"   -> <<>>
      [] g = "single"  -> <<BuildNode("A")>>
      [] g = "nostart" -> <<TypedNode("A", "command", "bad")>>
      [] g = "release" -> <<TypedNode("A", "release", "ok")>>
      [] g = "one"     -> <<TypedNode("B", "script", "one")>>
      [] g = "two"     -> <<TypedNode("B", "script", "two")>>
      [] OTHER         -> <<BuildNode("A"), BuildNode("B")>>

GraphEdges(g) ==
    CASE g \in {"empty", "single", "nostart", "release", "one", "two"} -> <<>>
      [] g = "chain" -> <<BuildEdge("A", "B")>>
      [] OTHER       -> <<BuildEdge("A", "B"), BuildEdge("B", "A")>>

\* The messages of the store, for every id and content.
StoreMessages ==
    {Msg("SaveWorkflow", id, c) : id \in WorkflowIds, c \in Contents}
    \cup {Msg("DeleteWorkflow", id, "") : id \in WorkflowIds}
    \cup {Msg("SaveAction", id, c) : id \in ActionIds, c \in Contents}
    \cup {Msg("DeleteAction", id, "") : id \in ActionIds}

\* The variants of ServerMessage the server sends and a client does not.
ServerToClient ==
    {"Pong", "BuildProgress", "BuildComplete", "BuildLog", "Error", "SyncResponse",
     "ActionResult"}

\* The messages the session of ProtocolSpec receives: every variant.
ProtocolMessages ==
    {Msg("Ping", "", ""), Msg("SyncRequest", "", ""),
     Msg("BuildStart", "b1", "chain"), Msg("BuildStart", "b2", "cycle"),
     Msg("BuildCancel", "b1", ""),
     Msg("SaveWorkflow", "w1", "x"), Msg("SaveWorkflow", "w1", "y"),
     Msg("DeleteWorkflow", "w1", ""),
     Msg("SaveAction", "a1", "x"), Msg("DeleteAction", "a1", ""),
     Msg("RunAction", "a1", "")}
    \cup {Msg(type, "", "") : type \in ServerToClient}

\* The messages the concurrent sessions of Spec receive.
Messages ==
    {Msg("Ping", "", ""), Msg("SyncRequest", "", ""),
     Msg("BuildStart", "b1", "single"), Msg("BuildStart", "b2", "empty"),
     Msg("SaveWorkflow", "w1", "x"), Msg("SaveWorkflow", "w1", "y")}

\* The messages of the sessions of BuildsSpec: builds that end well or with
\* each kind of error.
BuildMessages ==
    {Msg("BuildStart", "b1", "single"), Msg("BuildStart", "b1", "nostart"),
     Msg("BuildStart", "b2", "cycle")}

\* The messages of the session of DetachSpec: builds, and the request to
\* cancel one of them.
DetachMessages ==
    {Msg("BuildStart", "b1", "single"), Msg("BuildStart", "b2", "cycle"),
     Msg("BuildCancel", "b1", "")}

NoMsg == Msg("", "", "")

\* What a session writes to its stream.
EmptySync == [workflows |-> <<>>, actions |-> <<>>, repos |-> <<>>]

Reply(req, type, id, success, output, sync) ==
    [req |-> req, type |-> type, id |-> id, success |-> success,
     output |-> output, sync |-> sync]

\* ------------------------------------------------------------------- state
VARIABLES
    shared_data,   \* the ServerData behind Arc<RwLock<..>>
    lock,          \* the RwLock: its writer and its readers
    disk,          \* server-data.json
    sessions,      \* one handle_connection task per accepted connection
    builds,        \* the tasks spawned by BuildStart, in spawn order
    listening,     \* the accept loop of main is running
    spawned,       \* child processes started by the action runner
    workdir,       \* the working directory of the builds
    servers,       \* the desktop client: AppState.servers
    connects,      \* the desktop client: the connect_server calls, each with its local server
    returned       \* the desktop client: what its start_build calls returned

vars == <<shared_data, lock, disk, sessions, builds, listening, spawned, workdir,
          servers, connects, returned>>

SessionHolder(s) == <<"session", s>>

BuildHolder(b) == <<"build", b>>

\* A connection slot: status none (not accepted yet), open, closed
\* (handle_connection returned Ok) or failed (it returned Err(err)); recv
\* counts the frames read, handled the frames whose handling has ended;
\* content is the local of ServerData::save while the task is inside it; exit
\* is how the child process of the last RunAction ended; github_token is the
\* clone of the server's token handle_connection is called with.
NewSession ==
    [status |-> "none", pc |-> "read", msg |-> NoMsg, recv |-> 0,
     handled |-> 0, out |-> <<>>, err |-> "", content |-> JNull, exit |-> "",
     github_token |-> "None"]

FramesRead == LET RECURSIVE sum(_)
                  sum(S) == IF S = {} THEN 0
                            ELSE LET s == CHOOSE x \in S : TRUE
                                 IN  sessions[s].recv + sum(S \ {s})
              IN  sum(Sessions)

Init ==
    /\ shared_data = EmptyData
    /\ lock = [writers |-> {}, readers |-> {}]
    /\ disk = NoFile
    /\ sessions = [s \in Sessions |-> NewSession]
    /\ builds = <<>>
    /\ listening = TRUE
    /\ spawned = 0
    /\ workdir = EmptyDir
    /\ servers = <<>>
    /\ connects = <<>>
    /\ returned = <<>>

\* --------------------------------------------------------------- the RwLock
\* RwLock::write(): granted when nobody holds the lock.
write_granted == lock.writers = {} /\ lock.readers = {}

\* RwLock::read(): granted when no writer holds the lock.
read_granted == lock.writers = {}

acquire_write(h) == [lock EXCEPT !.writers = @ \cup {h}]

acquire_read(h) == [lock EXCEPT !.readers = @ \cup {h}]

\* Dropping a guard.
release(h) == [writers |-> lock.writers \ {h}, readers |-> lock.readers \ {h}]

\* What std::fs::write and create_dir_all can do to the file: the whole
\* content replaces it; nothing is written (the directory or the file cannot
\* be created); or the file is created empty and the write stops part-way.
SaveOutcomes == {"ok", "failed", "partial"}

\* ServerData::save from std::fs::write on: the file after the call and the
\* Result, which the callers drop (let _ =).
save(content, outcome) ==
    CASE outcome = "ok"      -> [exists |-> TRUE, content |-> content, result |-> "ok"]
      [] outcome = "partial" -> [exists |-> TRUE, content |-> Truncated, result |-> "err"]
      [] OTHER               -> [disk EXCEPT !.result = "err"]

\* ---------------------------------------------------------- main: accept loop
\* A main that returns the error of load (`load(..)?`): the process exits.
Main_propagates ==
    /\ ~listening
    /\ load(disk).ok
    /\ shared_data' = load(disk).data
    /\ listening' = TRUE
    /\ UNCHANGED <<lock, disk, sessions, builds, spawned, workdir, servers, connects, returned>>

\* main up to the accept loop: the store is what load returned, or the default
\* aggregate; the listener is bound (the port is taken to be free).
Main ==
    /\ ~listening
    /\ shared_data' = unwrap_or_default(load(disk))
    /\ listening' = TRUE
    /\ UNCHANGED <<lock, disk, sessions, builds, spawned, workdir, servers, connects, returned>>

\* listener.accept() and the spawned handle_connection up to accept_async:
\* connections are numbered in accept order; a failed handshake ends the task.
Accept(s) ==
    /\ listening
    /\ sessions[s].status = "none"
    /\ \A t \in Sessions : t < s => sessions[t].status # "none"
    /\ \E ok \in BOOLEAN :
          sessions' = [sessions EXCEPT ![s] =
              IF ok THEN [@ EXCEPT !.status = "open"]
              ELSE [@ EXCEPT !.status = "failed", !.pc = "returned",
                             !.err = "handshake"]]
    /\ UNCHANGED <<shared_data, lock, disk, builds, listening, spawned, workdir, servers, connects, returned>>

\* ------------------------------------------------- handle_connection: reading
\* A session that reads its next frame whatever it is doing.
Reading_always(s) == sessions[s].status = "open"

\* The position of a session at read.next().await (line 270).
Reading(s) == sessions[s].status = "open" /\ sessions[s].pc = "read"

\* The end of the handling of one message: back to read.next(); msg stays the
\* message handled last.
finished(se) == [se EXCEPT !.pc = "read", !.handled = @ + 1]

\* A `?` that returns Err from handle_connection.
failed(se, why) ==
    [se EXCEPT !.status = "failed", !.pc = "returned", !.err = why]

\* write.send(reply).await?: the reply is on the stream, or the send fails and
\* handle_connection returns the error.
send(se, sent, reply) ==
    IF sent THEN finished([se EXCEPT !.out = Append(@, reply)])
    ELSE failed(se, "send")

\* A session whose end aborts the builds it has started.
Close_aborts_builds(s) ==
    /\ Reading(s)
    /\ sessions' = [sessions EXCEPT ![s] =
                        [@ EXCEPT !.status = "closed", !.pc = "returned"]]
    /\ builds' = [b \in DOMAIN builds |->
                     IF builds[b].session = s /\ builds[b].pc \in {"sort", "run", "record"}
                     THEN [builds[b] EXCEPT !.pc = "done", !.result = "aborted"]
                     ELSE builds[b]]
    /\ UNCHANGED <<shared_data, lock, disk, listening, spawned, workdir, servers, connects, returned>>

\* read.next() yields None (the loop ends, handle_connection returns Ok) or a
\* transport error (let msg = msg?, it returns Err): either way the task ends
\* between two frames and touches nothing shared, and the two are not told apart.
Close(s) ==
    /\ Reading(s)
    /\ sessions' = [sessions EXCEPT ![s] =
                        [@ EXCEPT !.status = "closed", !.pc = "returned"]]
    /\ UNCHANGED <<shared_data, lock, disk, builds, listening, spawned, workdir, servers, connects, returned>>

\* A frame that is not Message::Text is skipped.
RecvOther(s) ==
    /\ Reading(s)
    /\ FramesRead < MaxMsgs
    /\ sessions' = [sessions EXCEPT ![s] =
                        [@ EXCEPT !.recv = @ + 1, !.handled = @ + 1]]
    /\ UNCHANGED <<shared_data, lock, disk, builds, listening, spawned, workdir, servers, connects, returned>>

\* A decode error that takes every session down.
decode_error_everywhere(s) ==
    [t \in Sessions |->
        IF sessions[t].status = "open"
        THEN [sessions[t] EXCEPT !.status = "failed", !.pc = "returned", !.err = "decode"]
        ELSE sessions[t]]

\* serde_json::from_str(&text)? on a text frame that is no ServerMessage.
decode_error(s) == [sessions EXCEPT ![s] = failed([@ EXCEPT !.recv = @ + 1], "decode")]

RecvMalformed(s) ==
    /\ Reading(s)
    /\ FramesRead < MaxMsgs
    /\ sessions' = decode_error(s)
    /\ UNCHANGED <<shared_data, lock, disk, builds, listening, spawned, workdir, servers, connects, returned>>

\* A text frame that decodes as ServerMessage m: the match on it follows.
RecvText(s, m) ==
    /\ Reading(s)
    /\ FramesRead < MaxMsgs
    /\ sessions' = [sessions EXCEPT ![s] =
                        [@ EXCEPT !.recv = @ + 1, !.msg = m, !.pc = "handle"]]
    /\ UNCHANGED <<shared_data, lock, disk, builds, listening, spawned, workdir, servers, connects, returned>>

Handling(s, type) ==
    /\ sessions[s].status = "open"
    /\ sessions[s].pc = "handle"
    /\ sessions[s].msg.type = type

\* ------------------------------------------------- handle_connection: the arms
Ping(s) ==
    /\ Handling(s, "Ping")
    /\ \E sent \in BOOLEAN :
          sessions' = [sessions EXCEPT ![s] =
              send(@, sent, Reply(@.recv, "Pong", "", TRUE, <<>>, EmptySync))]
    /\ UNCHANGED <<shared_data, lock, disk, builds, listening, spawned, workdir, servers, connects, returned>>

\* A credential taken from the server whenever it has one.
or_server_first(payload_token, server_token) ==
    IF server_token # "None" THEN server_token ELSE payload_token

\* Option::or: the first when it is Some, otherwise the second.
or(payload_token, server_token) ==
    IF payload_token # "None" THEN payload_token ELSE server_token

\* The task tokio::spawn starts for a BuildStart: execute_build, then the push
\* of the BuildRecord. github_token is the token of the payload the task owns,
\* token the credential execute_build is called with,
\* artifacts its list of collected paths, warned the nodes it has skipped with
\* a warning, shell the texts the shells of its script nodes found at their
\* path, removed the texts of the files its cleanups removed.
BuildTask(s, req, m) ==
    [session |-> s, req |-> req, build_id |-> m.id,
     nodes |-> GraphNodes(m.body), edges |-> GraphEdges(m.body),
     pc |-> "sort", order |-> <<>>, index |-> 0, ran |-> <<>>, exits |-> <<>>,
     progress |-> 0, result |-> "running", content |-> JNull,
     github_token |-> m.github_token,
     token |-> or(m.github_token, sessions[s].github_token),
     artifacts |-> <<>>, warned |-> <<>>, shell |-> <<>>, removed |-> <<>>]

\* A BuildStart arm that awaits the build instead of detaching it.
spawn_build_awaited(s) ==
    /\ builds' = Append(builds, BuildTask(s, sessions[s].recv, sessions[s].msg))
    /\ sessions' = [sessions EXCEPT ![s] = [@ EXCEPT !.pc = "build_awaited"]]

\* The BuildStart arm: spawn and go on with the loop.
spawn_build(s) ==
    /\ builds' = Append(builds, BuildTask(s, sessions[s].recv, sessions[s].msg))
    /\ sessions' = [sessions EXCEPT ![s] = finished(@)]

BuildStart(s) ==
    /\ Handling(s, "BuildStart")
    /\ spawn_build(s)
    /\ UNCHANGED <<shared_data, lock, disk, listening, spawned, workdir, servers, connects, returned>>

\* A BuildCancel arm that stops the builds of the id where they are.
BuildCancel_stops(s) ==
    /\ Handling(s, "BuildCancel")
    /\ sessions' = [sessions EXCEPT ![s] = finished(@)]
    /\ builds' = [b \in DOMAIN builds |->
                     IF /\ builds[b].build_id = sessions[s].msg.id
                        /\ builds[b].pc \in {"sort", "run", "record"}
                     THEN [builds[b] EXCEPT !.pc = "done", !.result = "cancelled"]
                     ELSE builds[b]]
    /\ UNCHANGED <<shared_data, lock, disk, listening, spawned, workdir, servers, connects, returned>>

\* The BuildCancel arm only logs.
BuildCancel(s) ==
    /\ Handling(s, "BuildCancel")
    /\ sessions' = [sessions EXCEPT ![s] = finished(@)]
    /\ UNCHANGED <<shared_data, lock, disk, builds, listening, spawned, workdir, servers, connects, returned>>

\* A catch-all arm that answers what it does not handle with an Error.
Ignored_answers(s) ==
    /\ \E type \in ServerToClient : Handling(s, type)
    /\ sessions' = [sessions EXCEPT ![s] =
          send(@, TRUE, Reply(@.recv, "Error", "", FALSE, <<"Unexpected message">>, EmptySync))]
    /\ UNCHANGED <<shared_data, lock, disk, builds, listening, spawned, workdir, servers, connects, returned>>

\* _ => {}: Pong and the other server-to-client variants.
Ignored(s) ==
    /\ \E type \in ServerToClient : Handling(s, type)
    /\ sessions' = [sessions EXCEPT ![s] = finished(@)]
    /\ UNCHANGED <<shared_data, lock, disk, builds, listening, spawned, workdir, servers, connects, returned>>

\* SyncRequest: shared_data.read().await
SyncAcquire(s) ==
    /\ Handling(s, "SyncRequest")
    /\ read_granted
    /\ lock' = acquire_read(SessionHolder(s))
    /\ sessions' = [sessions EXCEPT ![s] = [@ EXCEPT !.pc = "sync_locked"]]
    /\ UNCHANGED <<shared_data, disk, builds, listening, spawned, workdir, servers, connects, returned>>

\* A SyncResponse built from the snapshot file instead of the store.
SyncData_of_file ==
    [workflows |-> load(disk).data.workflows, actions |-> load(disk).data.actions,
     repos |-> load(disk).data.repos]

SyncData == [workflows |-> shared_data.workflows, actions |-> shared_data.actions,
             repos |-> shared_data.repos]

\* SyncRequest: clone, serialize and send under the read guard, dropped at the
\* end of the arm (or by the `?`).
SyncRespond(s) ==
    /\ sessions[s].status = "open"
    /\ sessions[s].pc = "sync_locked"
    /\ \E sent \in BOOLEAN :
          sessions' = [sessions EXCEPT ![s] =
              send(@, sent, Reply(@.recv, "SyncResponse", "", TRUE, <<>>, SyncData))]
    /\ lock' = release(SessionHolder(s))
    /\ UNCHANGED <<shared_data, disk, builds, listening, spawned, workdir, servers, connects, returned>>

\* A mutating arm that goes on to the change without taking the write lock.
AcquireWrite_unlocked(s) ==
    /\ sessions[s].status = "open"
    /\ sessions[s].pc = "handle"
    /\ sessions[s].msg.type \in
          {"SaveWorkflow", "DeleteWorkflow", "SaveAction", "DeleteAction"}
    /\ sessions' = [sessions EXCEPT ![s] = [@ EXCEPT !.pc = "write_locked"]]
    /\ UNCHANGED <<shared_data, lock, disk, builds, listening, spawned, workdir, servers, connects, returned>>

\* shared_data.write().await of the four mutating arms.
AcquireWrite(s) ==
    /\ sessions[s].status = "open"
    /\ sessions[s].pc = "handle"
    /\ sessions[s].msg.type \in
          {"SaveWorkflow", "DeleteWorkflow", "SaveAction", "DeleteAction"}
    /\ write_granted
    /\ lock' = acquire_write(SessionHolder(s))
    /\ sessions' = [sessions EXCEPT ![s] = [@ EXCEPT !.pc = "write_locked"]]
    /\ UNCHANGED <<shared_data, disk, builds, listening, spawned, workdir, servers, connects, returned>>

WriteLocked(s, type) ==
    /\ sessions[s].status = "open"
    /\ sessions[s].pc = "write_locked"
    /\ sessions[s].msg.type = type

\* A mutating arm that drops its guard after the change, before data.save.
commit_drops_guard(s, data) ==
    /\ shared_data' = data
    /\ sessions' = [sessions EXCEPT ![s] =
                        [@ EXCEPT !.pc = "saving", !.content = to_string_pretty(data)]]
    /\ lock' = release(SessionHolder(s))
    /\ UNCHANGED <<disk, builds, listening, spawned, workdir, servers, connects, returned>>

\* A mutating arm under its guard: the change, then data.save up to the
\* serialized content.
commit(s, data) ==
    /\ shared_data' = data
    /\ sessions' = [sessions EXCEPT ![s] =
                        [@ EXCEPT !.pc = "saving", !.content = to_string_pretty(data)]]
    /\ UNCHANGED <<lock, disk, builds, listening, spawned, workdir, servers, connects, returned>>

\* A mutating arm that returns the error of data.save (data.save(..)?).
Save_propagates(s) ==
    /\ sessions[s].status = "open"
    /\ sessions[s].pc = "saving"
    /\ \E outcome \in SaveOutcomes :
          /\ disk' = save(sessions[s].content, outcome)
          /\ sessions' = [sessions EXCEPT ![s] =
                IF outcome = "ok" THEN finished([@ EXCEPT !.content = JNull])
                ELSE failed([@ EXCEPT !.content = JNull], "save")]
    /\ lock' = release(SessionHolder(s))
    /\ UNCHANGED <<shared_data, builds, listening, spawned, workdir, servers, connects, returned>>

\* The end of a mutating arm: std::fs::write of data.save, its Result dropped,
\* then the guard is dropped and the loop goes on.
Save(s) ==
    /\ sessions[s].status = "open"
    /\ sessions[s].pc = "saving"
    /\ \E outcome \in SaveOutcomes : disk' = save(sessions[s].content, outcome)
    /\ lock' = release(SessionHolder(s))
    /\ sessions' = [sessions EXCEPT ![s] = finished([@ EXCEPT !.content = JNull])]
    /\ UNCHANGED <<shared_data, builds, listening, spawned, workdir, servers, connects, returned>>

SaveWorkflow(s) ==
    /\ WriteLocked(s, "SaveWorkflow")
    /\ commit(s, [shared_data EXCEPT !.workflows =
                    upsert(@, StoredWorkflow(sessions[s].msg.id, sessions[s].msg.body))])

DeleteWorkflow(s) ==
    /\ WriteLocked(s, "DeleteWorkflow")
    /\ commit(s, [shared_data EXCEPT !.workflows = retain(@, sessions[s].msg.id)])

SaveAction(s) ==
    /\ WriteLocked(s, "SaveAction")
    /\ commit(s, [shared_data EXCEPT !.actions =
                    upsert(@, StoredAction(sessions[s].msg.id, sessions[s].msg.body))])

\* A delete of an action that also drops the workflows.
DeleteAction_cascade(s) ==
    /\ WriteLocked(s, "DeleteAction")
    /\ commit(s, [shared_data EXCEPT !.actions = retain(@, sessions[s].msg.id),
                                      !.workflows = <<>>])

DeleteAction(s) ==
    /\ WriteLocked(s, "DeleteAction")
    /\ commit(s, [shared_data EXCEPT !.actions = retain(@, sessions[s].msg.id)])

\* RunAction: shared_data.read().await
RunActionAcquire(s) ==
    /\ Handling(s, "RunAction")
    /\ read_granted
    /\ lock' = acquire_read(SessionHolder(s))
    /\ sessions' = [sessions EXCEPT ![s] = [@ EXCEPT !.pc = "action_locked"]]
    /\ UNCHANGED <<shared_data, disk, builds, listening, spawned, workdir, servers, connects, returned>>

\* The error text without the id.
not_found_anonymous(action_id) == <<"Action not found", "">>

\* format!("Action not found: {}", payload.action_id)
not_found(action_id) == <<"Action not found: ", action_id>>

\* RunAction, find is None: the Error reply, under the read guard.
run_action_missing(s) ==
    /\ \E sent \in BOOLEAN :
          sessions' = [sessions EXCEPT ![s] =
              send(@, sent, Reply(@.recv, "Error", "", FALSE,
                                  not_found(@.msg.id), EmptySync))]
    /\ lock' = release(SessionHolder(s))
    /\ UNCHANGED <<shared_data, disk, builds, listening, spawned, workdir, servers, connects, returned>>

RunActionNotFound(s) ==
    /\ sessions[s].status = "open"
    /\ sessions[s].pc = "action_locked"
    /\ find(shared_data.actions, sessions[s].msg.id) = 0
    /\ run_action_missing(s)

\* How the child process of the action runner can end: exit status 0, another
\* exit status, or an io::Error of Command::output (bash cannot be started, or
\* its output cannot be collected).
ActionExits == {"exit0", "nonzero", "error"}

\* The failure detail with the output of the script left out.
action_output_discards(exit) ==
    CASE exit = "exit0"   -> <<"stdout+stderr">>
      [] exit = "nonzero" -> <<"Script failed">>
      [] OTHER            -> <<"io error">>

\* run_script (the action runner) and the match on its result: Ok(stdout+stderr)
\* on exit 0, the text of the error otherwise: "Script failed: " stdout+stderr,
\* or the text of the io::Error.
action_output(exit) ==
    CASE exit = "exit0"   -> <<"stdout+stderr">>
      [] exit = "nonzero" -> <<"Script failed: ", "stdout+stderr">>
      [] OTHER            -> <<"io error">>

\* The ActionResult reply for a child that ended with exit, then the send.
action_result(se, exit, sent) ==
    send([se EXCEPT !.exit = exit], sent,
         Reply(se.recv, "ActionResult", se.msg.id, exit = "exit0",
               action_output(exit), EmptySync))

\* RunAction, find is Some: run_script starts bash -c and awaits its output,
\* the read guard still held; when bash cannot be started the error is
\* answered at once.
RunActionSpawn(s) ==
    /\ sessions[s].status = "open"
    /\ sessions[s].pc = "action_locked"
    /\ find(shared_data.actions, sessions[s].msg.id) # 0
    /\ \E started \in BOOLEAN :
          IF started
          THEN /\ spawned' = spawned + 1
               /\ sessions' = [sessions EXCEPT ![s] = [@ EXCEPT !.pc = "action_running"]]
               /\ UNCHANGED lock
          ELSE /\ \E sent \in BOOLEAN :
                     sessions' = [sessions EXCEPT ![s] = action_result(@, "error", sent)]
               /\ lock' = release(SessionHolder(s))
               /\ UNCHANGED spawned
    /\ UNCHANGED <<shared_data, disk, builds, listening, workdir, servers, connects, returned>>

\* The child has ended: the ActionResult reply, then the guard is dropped.
RunActionResult(s) ==
    /\ sessions[s].status = "open"
    /\ sessions[s].pc = "action_running"
    /\ \E exit \in ActionExits, sent \in BOOLEAN :
          sessions' = [sessions EXCEPT ![s] = action_result(@, exit, sent)]
    /\ lock' = release(SessionHolder(s))
    /\ UNCHANGED <<shared_data, disk, builds, listening, spawned, workdir, servers, connects, returned>>

\* ------------------------------------------------------------ execute_build
\* let sorted_nodes = topological_sort(..)?: the error returns from
\* execute_build before the loop over the nodes.
sorted(task, r) ==
    IF ~r.ok THEN [task EXCEPT !.result = r.err, !.pc = "record"]
    ELSE IF r.nodes = <<>> THEN [task EXCEPT !.result = "ok", !.pc = "record"]
    ELSE [task EXCEPT !.order = r.nodes, !.index = 1, !.pc = "run"]

\* A build task that takes the write guard before execute_build and keeps it
\* while the nodes run.
BuildSort_under_guard(b) ==
    /\ builds[b].pc = "sort"
    /\ write_granted
    /\ lock' = acquire_write(BuildHolder(b))
    /\ \E q \in initial_queues(builds[b].nodes, builds[b].edges) :
          builds' = [builds EXCEPT ![b] =
              sorted(@, topological_sort(@.nodes, @.edges, q))]
    /\ UNCHANGED <<shared_data, disk, sessions, listening, spawned, workdir, servers, connects, returned>>

BuildSort(b) ==
    /\ builds[b].pc = "sort"
    /\ \E q \in initial_queues(builds[b].nodes, builds[b].edges) :
          builds' = [builds EXCEPT ![b] =
              sorted(@, topological_sort(@.nodes, @.edges, q))]
    /\ UNCHANGED <<shared_data, lock, disk, sessions, listening, spawned, workdir, servers, connects, returned>>

\* A match whose last arm returns an error for a node type it does not know.
outcomes_strict(node) ==
    CASE node.node_type \in {"command", "script"} ->
            IF node.config = "bad" THEN {FALSE} ELSE {TRUE, FALSE}
      [] node.node_type = "artifact" ->
            IF node.config = "bad" THEN {FALSE} ELSE {TRUE}
      [] node.node_type = "release" -> {TRUE}
      [] OTHER -> {FALSE}

\* Whether a node ends without error. run_command and run_script bail on a
\* non-zero exit and return the io::Error of a child that cannot be started,
\* glob::glob(..)? returns the error of a pattern it cannot parse; the release
\* arm and the arm of the other types return no error.
outcomes(node) ==
    CASE node.node_type \in {"command", "script"} ->
            IF node.config = "bad" THEN {FALSE} ELSE {TRUE, FALSE}
      [] node.node_type = "artifact" ->
            IF node.config = "bad" THEN {FALSE} ELSE {TRUE}
      [] OTHER -> {TRUE}

node_error(node) ==
    CASE node.node_type \in {"command", "script"} /\ node.config = "bad" -> "io error"
      [] node.node_type = "command" -> "Command failed"
      [] node.node_type = "script" -> "Script failed"
      [] OTHER -> "Pattern syntax error"

\* run_script (build script node): the script files after the call. The file
\* is written; `spawn()?` returns the error of a shell that cannot be started
\* before the cleanup, otherwise remove_file runs once the child has ended.
run_script(node, build_id, scripts) ==
    IF node.config = "bad"
    THEN fs_write(scripts, script_path(build_id), node.config)
    ELSE remove_file(fs_write(scripts, script_path(build_id), node.config),
                     script_path(build_id))

\* An artifact arm that pushes every entry, the errors included.
collect_all(artifacts, entries) ==
    artifacts \o [i \in DOMAIN entries |-> entries[i].path]

\* The artifact arm: the paths of the Ok entries are pushed, in order.
collect(artifacts, entries) ==
    LET found == SelectSeq(entries, LAMBDA e : e.ok)
    IN  artifacts \o [i \in DOMAIN found |-> found[i].path]

\* release without a credential and the other node types: warn!, no error.
skipped(node, token) ==
    \/ node.node_type = "release" /\ token = "None"
    \/ node.node_type \notin {"command", "script", "artifact", "release"}

\* f32 arithmetic of line 429, on integers: a float is <<m, e>>, the value
\* m / 2^e with m of at most 24 bits.
RECURSIVE Pow2(_)
Pow2(k) == IF k = 0 THEN 1 ELSE 2 * Pow2(k - 1)

\* Round to nearest, ties to even, of a / b.
round_even(a, b) ==
    LET q == a \div b
        r == a % b
    IN  IF 2 * r > b \/ (2 * r = b /\ q % 2 = 1) THEN q + 1 ELSE q

\* index as f32 / total_nodes as f32, for 0 < a < b < 128: a is scaled until
\* the quotient has 24 bits.
RECURSIVE f32_div(_, _, _)
f32_div(a, b, e) ==
    IF a >= b * Pow2(23) THEN <<round_even(a, b), e>> ELSE f32_div(2 * a, b, e + 1)

\* (x * 100.0) as u8 for 0 < x < 1: the exact product m * 100 / 2^e is rounded
\* to 24 bits, then truncated toward zero.
f32_times_100_as_u8(x) ==
    LET prod == x[1] * 100
        t    == IF prod >= Pow2(30) THEN 7
                ELSE IF prod >= Pow2(29) THEN 6
                ELSE IF prod >= Pow2(28) THEN 5
                ELSE IF prod >= Pow2(27) THEN 4
                ELSE IF prod >= Pow2(26) THEN 3
                ELSE IF prod >= Pow2(25) THEN 2
                ELSE IF prod >= Pow2(24) THEN 1 ELSE 0
    IN  round_even(prod, Pow2(t)) \div Pow2(x[2] - t)

\* let progress = ((index as f32 / total_nodes as f32) * 100.0) as u8
progress(index, total_nodes) ==
    IF index = 0 THEN 0 ELSE f32_times_100_as_u8(f32_div(index, total_nodes, 0))

\* A loop that goes on to the next node after a failed one and returns the
\* error of the last node only.
executed_keeps_going(task, ok) ==
    LET node  == task.order[task.index]
        ran   == Append(task.ran, node.id)
        exits == Append(task.exits, ok)
    IN  IF task.index = Len(task.order)
        THEN [task EXCEPT !.ran = ran, !.exits = exits, !.pc = "record",
                          !.result = IF ok THEN "ok" ELSE node_error(node)]
        ELSE [task EXCEPT !.ran = ran, !.exits = exits, !.index = @ + 1]

\* One iteration of the for loop: progress is computed (and used nowhere), the
\* node at index runs (exits holds whether its arm ended without error); its
\* error returns from execute_build (`?`), otherwise the loop goes on.
executed(task, ok) ==
    LET node  == task.order[task.index]
        ran   == Append(task.ran, node.id)
        exits == Append(task.exits, ok)
        now   == [task EXCEPT !.ran = ran, !.exits = exits,
                      !.progress = progress(task.index - 1, Len(task.order)),
                      !.artifacts = IF node.node_type = "artifact" /\ ok
                                    THEN collect(@, workdir.dist) ELSE @,
                      !.warned = IF skipped(node, task.token)
                                 THEN Append(@, node.id) ELSE @]
    IN  IF ~ok
        THEN [now EXCEPT !.result = node_error(node), !.pc = "record"]
        ELSE IF task.index = Len(task.order)
        THEN [now EXCEPT !.result = "ok", !.pc = "record"]
        ELSE [now EXCEPT !.index = @ + 1]

\* A build whose error returns into the session that started it.
ExecuteNode_propagates(b) ==
    /\ builds[b].pc = "run"
    /\ \E ok \in outcomes(builds[b].order[builds[b].index]) :
          /\ builds' = [builds EXCEPT ![b] = executed(@, ok)]
          /\ sessions' = IF ok \/ sessions[builds[b].session].status # "open"
                         THEN sessions
                         ELSE [sessions EXCEPT ![builds[b].session] = failed(@, "build")]
    /\ UNCHANGED <<shared_data, lock, disk, listening, spawned, workdir, servers, connects, returned>>

ExecuteNode(b) ==
    /\ builds[b].pc = "run"
    /\ LET node == builds[b].order[builds[b].index]
       IN  /\ \E ok \in outcomes(node) :
                 builds' = [builds EXCEPT ![b] = executed(@, ok)]
           /\ workdir' = IF node.node_type = "script"
                         THEN [workdir EXCEPT !.scripts =
                                  run_script(node, builds[b].build_id, @)]
                         ELSE workdir
    /\ UNCHANGED <<shared_data, lock, disk, sessions, listening, spawned, servers, connects, returned>>

\* ---------------------------------------- run_script, one await at a time
\* tokio::fs::write(&script_path, script).await
ScriptWrite(b) ==
    /\ builds[b].pc = "run"
    /\ builds[b].order[builds[b].index].node_type = "script"
    /\ workdir' = [workdir EXCEPT !.scripts =
                      fs_write(@, script_path(builds[b].build_id),
                               builds[b].order[builds[b].index].config)]
    /\ builds' = [builds EXCEPT ![b] = [@ EXCEPT !.pc = "script_written"]]
    /\ UNCHANGED <<shared_data, lock, disk, sessions, listening, spawned, servers, connects, returned>>

\* Command::new(shell).arg(&script_path)...spawn()?: the error of a shell that
\* cannot be started returns from run_script, before the cleanup.
ScriptSpawn(b) ==
    /\ builds[b].pc = "script_written"
    /\ builds' = [builds EXCEPT ![b] =
          IF @.order[@.index].config = "bad"
          THEN executed([@ EXCEPT !.pc = "run"], FALSE)
          ELSE [@ EXCEPT !.pc = "script_spawned"]]
    /\ UNCHANGED <<shared_data, lock, disk, sessions, listening, spawned, workdir, servers, connects, returned>>

\* The child: the shell opens the path it was given and runs what it finds
\* there.
ScriptChild(b) ==
    /\ builds[b].pc = "script_spawned"
    /\ builds' = [builds EXCEPT ![b] =
          [@ EXCEPT !.pc = "script_waited",
                    !.shell = Append(@, fs_read(workdir.scripts,
                                                script_path(builds[b].build_id)))]]
    /\ UNCHANGED <<shared_data, lock, disk, sessions, listening, spawned, workdir, servers, connects, returned>>

\* wait_with_output().await is over: remove_file, then the exit status (a
\* shell that found no file exits with an error).
ScriptCleanup(b) ==
    /\ builds[b].pc = "script_waited"
    /\ workdir' = [workdir EXCEPT !.scripts =
                      remove_file(@, script_path(builds[b].build_id))]
    /\ \E ok \in IF builds[b].shell[Len(builds[b].shell)] = NotFound
                 THEN {FALSE} ELSE {TRUE, FALSE} :
          builds' = [builds EXCEPT ![b] =
              executed([@ EXCEPT !.pc = "run",
                                 !.removed = Append(@,
                                     fs_read(workdir.scripts,
                                             script_path(builds[b].build_id)))],
                       ok)]
    /\ UNCHANGED <<shared_data, lock, disk, sessions, listening, spawned, servers, connects, returned>>

\* --------------------------------------------- the build task: the history
\* data_clone.write().await, after execute_build has returned Ok or Err.
BuildAcquire(b) ==
    /\ builds[b].pc = "record"
    /\ write_granted
    /\ lock' = acquire_write(BuildHolder(b))
    /\ builds' = [builds EXCEPT ![b] = [@ EXCEPT !.pc = "locked"]]
    /\ UNCHANGED <<shared_data, disk, sessions, listening, spawned, workdir, servers, connects, returned>>

\* The time on the clock of a build task: the steps it has finished (the
\* sort, one per node run, the wait for the write guard). The readings one
\* task takes are ordered as its steps are.
Utc_now(task) ==
    (IF task.pc = "sort" THEN 0 ELSE 1) + Len(task.ran)
    + (IF task.pc \in {"locked", "saving", "done"} THEN 1 ELSE 0)

\* A push done for successful builds only.
push_record_on_success(history, task) ==
    IF task.result = "ok"
    THEN Append(history, BuildRecord(task.build_id, Utc_now(task))) ELSE history

\* The record put in front of the history (insert(0, ..)).
push_record_front(history, task) ==
    <<BuildRecord(task.build_id, Utc_now(task))>> \o history

\* build_history.push(BuildRecord {..})
push_record(history, task) ==
    Append(history, BuildRecord(task.build_id, Utc_now(task)))

\* The push under the guard, then data.save up to the serialized content.
RecordBuild(b) ==
    /\ builds[b].pc = "locked"
    /\ shared_data' = [shared_data EXCEPT !.build_history = push_record(@, builds[b])]
    /\ builds' = [builds EXCEPT ![b] =
                      [@ EXCEPT !.pc = "saving", !.content = to_string_pretty(shared_data')]]
    /\ UNCHANGED <<lock, disk, sessions, listening, spawned, workdir, servers, connects, returned>>

\* std::fs::write of data.save, its Result dropped, and the end of the task
\* (the guard is dropped).
BuildSave(b) ==
    /\ builds[b].pc = "saving"
    /\ \E outcome \in SaveOutcomes : disk' = save(builds[b].content, outcome)
    /\ lock' = release(BuildHolder(b))
    /\ builds' = [builds EXCEPT ![b] = [@ EXCEPT !.pc = "done", !.content = JNull]]
    /\ UNCHANGED <<shared_data, sessions, listening, spawned, workdir, servers, connects, returned>>

\* ------------------------------------------------------------ specifications
Next ==
    \/ \E s \in Sessions : Accept(s)
    \/ \E s \in Sessions : Close(s)
    \/ \E s \in Sessions : RecvMalformed(s)
    \/ \E s \in Sessions, m \in Messages : RecvText(s, m)
    \/ \E s \in Sessions : Ping(s)
    \/ \E s \in Sessions : BuildStart(s)
    \/ \E s \in Sessions : SyncAcquire(s)
    \/ \E s \in Sessions : SyncRespond(s)
    \/ \E s \in Sessions : AcquireWrite(s)
    \/ \E s \in Sessions : SaveWorkflow(s)
    \/ \E s \in Sessions : Save(s)
    \/ \E b \in DOMAIN builds : BuildSort(b)
    \/ \E b \in DOMAIN builds : ExecuteNode(b)
    \/ \E b \in DOMAIN builds : BuildAcquire(b)
    \/ \E b \in DOMAIN builds : RecordBuild(b)
    \/ \E b \in DOMAIN builds : BuildSave(b)

\* The server from its start with no snapshot file: sessions are accepted and
\* handle messages concurrently with each other and with the builds.
Spec == Init /\ [][Next]_vars

\* The server after its first connection was accepted, the store still empty.
InitProtocol ==
    /\ shared_data = EmptyData
    /\ lock = [writers |-> {}, readers |-> {}]
    /\ disk = NoFile
    /\ sessions = [s \in Sessions |->
          IF s = 1 THEN [NewSession EXCEPT !.status = "open"] ELSE NewSession]
    /\ builds = <<>>
    /\ listening = TRUE
    /\ spawned = 0
    /\ workdir = EmptyDir
    /\ servers = <<>>
    /\ connects = <<>>
    /\ returned = <<>>

NextProtocol ==
    \/ \E s \in Sessions : Close(s)
    \/ \E s \in Sessions : RecvOther(s)
    \/ \E s \in Sessions : RecvMalformed(s)
    \/ \E s \in Sessions, m \in ProtocolMessages : RecvText(s, m)
    \/ \E s \in Sessions : Ping(s)
    \/ \E s \in Sessions : BuildStart(s)
    \/ \E s \in Sessions : BuildCancel(s)
    \/ \E s \in Sessions : Ignored(s)
    \/ \E s \in Sessions : SyncAcquire(s)
    \/ \E s \in Sessions : SyncRespond(s)
    \/ \E s \in Sessions : AcquireWrite(s)
    \/ \E s \in Sessions : SaveWorkflow(s)
    \/ \E s \in Sessions : DeleteWorkflow(s)
    \/ \E s \in Sessions : SaveAction(s)
    \/ \E s \in Sessions : DeleteAction(s)
    \/ \E s \in Sessions : Save(s)
    \/ \E s \in Sessions : RunActionAcquire(s)
    \/ \E s \in Sessions : RunActionNotFound(s)
    \/ \E s \in Sessions : RunActionSpawn(s)
    \/ \E s \in Sessions : RunActionResult(s)
    \/ \E b \in DOMAIN builds : BuildSort(b)
    \/ \E b \in DOMAIN builds : ExecuteNode(b)
    \/ \E b \in DOMAIN builds : BuildAcquire(b)
    \/ \E b \in DOMAIN builds : RecordBuild(b)
    \/ \E b \in DOMAIN builds : BuildSave(b)

\* One session handling every kind of message, with the builds it starts.
ProtocolSpec == InitProtocol /\ [][NextProtocol]_vars

\* A store with an entry in each of its four collections.
FullStore ==
    [workflows |-> <<StoredWorkflow("w1", "x")>>,
     actions |-> <<StoredAction("a1", "x")>>,
     repos |-> <<[id |-> "r1", content |-> "x"]>>,
     build_history |-> <<BuildRecord("b0", 0)>>]

\* The server after its first connection was accepted, started on the
\* snapshot of a full store.
InitFrame ==
    /\ shared_data = FullStore
    /\ lock = [writers |-> {}, readers |-> {}]
    /\ disk = [exists |-> TRUE, content |-> to_string_pretty(FullStore),
               result |-> "none"]
    /\ sessions = [s \in Sessions |->
          IF s = 1 THEN [NewSession EXCEPT !.status = "open"] ELSE NewSession]
    /\ builds = <<>>
    /\ listening = TRUE
    /\ spawned = 0
    /\ workdir = EmptyDir
    /\ servers = <<>>
    /\ connects = <<>>
    /\ returned = <<>>

\* The messages of the session of FrameSpec: one of every type a client
\* sends.
FrameMessages ==
    {Msg("Ping", "", ""), Msg("SyncRequest", "", ""),
     Msg("BuildStart", "b1", "single"), Msg("BuildCancel", "b1", ""),
     Msg("SaveWorkflow", "w1", "y"), Msg("DeleteWorkflow", "w1", ""),
     Msg("SaveAction", "a1", "y"), Msg("DeleteAction", "a1", ""),
     Msg("RunAction", "a1", "")}

NextFrame ==
    \/ \E s \in Sessions, m \in FrameMessages : RecvText(s, m)
    \/ \E s \in Sessions : Ping(s)
    \/ \E s \in Sessions : BuildStart(s)
    \/ \E s \in Sessions : BuildCancel(s)
    \/ \E s \in Sessions : SyncAcquire(s)
    \/ \E s \in Sessions : SyncRespond(s)
    \/ \E s \in Sessions : AcquireWrite(s)
    \/ \E s \in Sessions : SaveWorkflow(s)
    \/ \E s \in Sessions : DeleteWorkflow(s)
    \/ \E s \in Sessions : SaveAction(s)
    \/ \E s \in Sessions : DeleteAction(s)
    \/ \E s \in Sessions : Save(s)
    \/ \E s \in Sessions : RunActionAcquire(s)
    \/ \E s \in Sessions : RunActionNotFound(s)
    \/ \E s \in Sessions : RunActionSpawn(s)
    \/ \E s \in Sessions : RunActionResult(s)
    \/ \E b \in DOMAIN builds : BuildSort(b)
    \/ \E b \in DOMAIN builds : ExecuteNode(b)
    \/ \E b \in DOMAIN builds : BuildAcquire(b)
    \/ \E b \in DOMAIN builds : RecordBuild(b)
    \/ \E b \in DOMAIN builds : BuildSave(b)

\* One session handling every kind of client message over a full store.
FrameSpec == InitFrame /\ [][NextFrame]_vars

\* One step of build task b.
BuildStep(b) ==
    /\ b \in DOMAIN builds
    /\ \/ BuildSort(b)
       \/ ExecuteNode(b)
       \/ BuildAcquire(b)
       \/ RecordBuild(b)
       \/ BuildSave(b)

NextDetach ==
    \/ \E s \in Sessions : Close(s)
    \/ \E s \in Sessions : RecvMalformed(s)
    \/ \E s \in Sessions, m \in DetachMessages : RecvText(s, m)
    \/ \E s \in Sessions : BuildStart(s)
    \/ \E s \in Sessions : BuildCancel(s)
    \/ \E b \in 1..MaxMsgs : BuildStep(b)

\* One session and the builds it starts, until the session ends and after. A
\* spawned task is scheduled by the runtime whatever becomes of the task that
\* spawned it, its child processes end, and the writers waiting for the RwLock
\* are served in turn: a build task that can take a step takes it.
DetachSpec ==
    InitProtocol /\ [][NextDetach]_vars /\ \A b \in 1..MaxMsgs : WF_vars(BuildStep(b))

NextBuilds ==
    \/ \E s \in Sessions : Accept(s)
    \/ \E s \in Sessions, m \in BuildMessages : RecvText(s, m)
    \/ \E s \in Sessions : BuildStart(s)
    \/ \E b \in DOMAIN builds : BuildSort(b)
    \/ \E b \in DOMAIN builds : ExecuteNode(b)
    \/ \E b \in DOMAIN builds : BuildAcquire(b)
    \/ \E b \in DOMAIN builds : RecordBuild(b)
    \/ \E b \in DOMAIN builds : BuildSave(b)

\* The server from its start, its sessions starting builds concurrently; the
\* sessions stay connected.
BuildsSpec == Init /\ [][NextBuilds]_vars

\* The messages of the sessions of ScriptsSpec: builds of one script node, two
\* of them with the same build_id and different scripts.
ScriptMessages ==
    {Msg("BuildStart", "b1", "one"), Msg("BuildStart", "b1", "two"),
     Msg("BuildStart", "b2", "one")}

NextScripts ==
    \/ \E s \in Sessions : Accept(s)
    \/ \E s \in Sessions, m \in ScriptMessages : RecvText(s, m)
    \/ \E s \in Sessions : BuildStart(s)
    \/ \E b \in DOMAIN builds : BuildSort(b)
    \/ \E b \in DOMAIN builds : ScriptWrite(b)
    \/ \E b \in DOMAIN builds : ScriptSpawn(b)
    \/ \E b \in DOMAIN builds : ScriptChild(b)
    \/ \E b \in DOMAIN builds : ScriptCleanup(b)
    \/ \E b \in DOMAIN builds : BuildAcquire(b)
    \/ \E b \in DOMAIN builds : RecordBuild(b)
    \/ \E b \in DOMAIN builds : BuildSave(b)

\* The messages of the sessions of TokensSpec: builds of one release node, with
\* and without a token of their own.
TokenMessages ==
    {Msg("BuildStart", "b1", "release"),
     WithToken(Msg("BuildStart", "b2", "release"), "payload token")}

\* The server started with or without --github-token, two connections
\* accepted, each handle_connection called with a clone of the server's token.
InitTokens ==
    /\ shared_data = EmptyData
    /\ lock = [writers |-> {}, readers |-> {}]
    /\ disk = NoFile
    /\ \E github_token \in {"None", "server token"} :
          sessions = [s \in Sessions |->
              [NewSession EXCEPT !.status = "open", !.github_token = github_token]]
    /\ builds = <<>>
    /\ listening = TRUE
    /\ spawned = 0
    /\ workdir = EmptyDir
    /\ servers = <<>>
    /\ connects = <<>>
    /\ returned = <<>>

NextTokens ==
    \/ \E s \in Sessions, m \in TokenMessages : RecvText(s, m)
    \/ \E s \in Sessions : BuildStart(s)
    \/ \E b \in DOMAIN builds : BuildSort(b)
    \/ \E b \in DOMAIN builds : ExecuteNode(b)
    \/ \E b \in DOMAIN builds : BuildAcquire(b)
    \/ \E b \in DOMAIN builds : RecordBuild(b)
    \/ \E b \in DOMAIN builds : BuildSave(b)

\* Builds with a release node, started with and without a token of their own
\* on a server with and without a configured token.
TokensSpec == InitTokens /\ [][NextTokens]_vars

\* The server from its start, its sessions starting builds of script nodes
\* that run in the one working directory, run_script taken one await at a
\* time.
ScriptsSpec == Init /\ [][NextScripts]_vars

\* The server right after its first session has handled one BuildStart, for
\* every payload within the bounds: the build task is about to sort.
InitExec ==
    /\ shared_data = EmptyData
    /\ lock = [writers |-> {}, readers |-> {}]
    /\ disk = NoFile
    /\ sessions = [s \in Sessions |->
          IF s = 1 THEN [NewSession EXCEPT !.status = "open", !.recv = 1, !.handled = 1]
          ELSE NewSession]
    /\ \E nodes \in NodeLists, edges \in EdgeLists :
          builds = <<[BuildTask(1, 1, Msg("BuildStart", "b1", "")) EXCEPT
                        !.nodes = nodes, !.edges = edges]>>
    /\ listening = TRUE
    /\ spawned = 0
    /\ workdir = EmptyDir
    /\ servers = <<>>
    /\ connects = <<>>
    /\ returned = <<>>

NextExec ==
    \/ \E b \in DOMAIN builds : BuildSort(b)
    \/ \E b \in DOMAIN builds : ExecuteNode(b)
    \/ \E b \in DOMAIN builds : BuildAcquire(b)
    \/ \E b \in DOMAIN builds : RecordBuild(b)
    \/ \E b \in DOMAIN builds : BuildSave(b)

ExecSpec == InitExec /\ [][NextExec]_vars

\* The nodes of the payloads of ArmsSpec: every node type with a config its arm
\* can work with, and the types that read their config with one it cannot.
ArmKinds ==
    {<<type, "ok">> : type \in NodeTypes}
    \cup {<<type, "bad">> : type \in {"command", "script", "artifact"}}

ArmIds == <<"A", "B", "C">>

\* A payload whose nodes are of the given kinds, each depending on the one
\* before it.
ArmNodes(kinds) == [i \in DOMAIN kinds |-> TypedNode(ArmIds[i], kinds[i][1], kinds[i][2])]

ArmEdges(kinds) == [i \in 1..(Len(kinds) - 1) |-> BuildEdge(ArmIds[i], ArmIds[i + 1])]

\* What glob can yield for "dist/*" in the working directory.
Dists ==
    {<<>>,
     <<GlobEntry(TRUE, "dist/a")>>,
     <<GlobEntry(TRUE, "dist/a"), GlobEntry(TRUE, "dist/b")>>,
     <<GlobEntry(FALSE, "dist/locked"), GlobEntry(TRUE, "dist/z")>>}

\* The server right after its first session has handled one BuildStart whose
\* nodes form a chain, for every kind of node, with and without a credential,
\* in a working directory that holds no script file.
InitArms ==
    /\ shared_data = EmptyData
    /\ lock = [writers |-> {}, readers |-> {}]
    /\ disk = NoFile
    /\ sessions = [s \in Sessions |->
          IF s = 1 THEN [NewSession EXCEPT !.status = "open", !.recv = 1, !.handled = 1]
          ELSE NewSession]
    /\ \E kinds \in SeqsUpTo(ArmKinds, MaxArms), token \in {"None", "Some"} :
          builds = <<[BuildTask(1, 1, Msg("BuildStart", "b1", "")) EXCEPT
                        !.nodes = ArmNodes(kinds), !.edges = ArmEdges(kinds),
                        !.token = token]>>
    /\ listening = TRUE
    /\ spawned = 0
    /\ \E dist \in Dists : workdir = [scripts |-> {}, dist |-> dist]
    /\ servers = <<>>
    /\ connects = <<>>
    /\ returned = <<>>

ArmsSpec == InitArms /\ [][NextExec]_vars

\* server-data.json as main can find it: absent, unreadable, cut short by an
\* interrupted write, or as an earlier run saved it.
StartFiles ==
    {NoFile}
    \cup {[exists |-> TRUE, content |-> c, result |-> "none"] :
             c \in {Unreadable, Truncated,
                    to_string_pretty([EmptyData EXCEPT
                        !.workflows = <<StoredWorkflow("w1", "x")>>,
                        !.build_history = <<BuildRecord("b1", 0)>>])}}

\* The messages of the sessions of StartSpec.
StartMessages == {Msg("SaveWorkflow", "w1", "y"), Msg("SaveAction", "a1", "x")}

\* The process before main has run: nothing is loaded, nobody listens.
InitStart ==
    /\ shared_data = EmptyData
    /\ lock = [writers |-> {}, readers |-> {}]
    /\ disk \in StartFiles
    /\ sessions = [s \in Sessions |-> NewSession]
    /\ builds = <<>>
    /\ listening = FALSE
    /\ spawned = 0
    /\ workdir = EmptyDir
    /\ servers = <<>>
    /\ connects = <<>>
    /\ returned = <<>>

NextStart ==
    \/ Main
    \/ \E s \in Sessions : Accept(s)
    \/ \E s \in Sessions, m \in StartMessages : RecvText(s, m)
    \/ \E s \in Sessions : AcquireWrite(s)
    \/ \E s \in Sessions : SaveWorkflow(s)
    \/ \E s \in Sessions : SaveAction(s)
    \/ \E s \in Sessions : Save(s)

\* The server from the start of its process, for every state of the snapshot
\* file; main runs to its accept loop.
StartSpec == InitStart /\ [][NextStart]_vars /\ WF_vars(Main)

\* The snapshots ServerData::load can return: what an earlier run saved (no id
\* twice in a collection).
DistinctIds(coll) == \A i, j \in DOMAIN coll : i # j => coll[i].id # coll[j].id

Snapshots ==
    {[EmptyData EXCEPT !.workflows = ws, !.actions = as] :
        ws \in {w \in SeqsUpTo({StoredWorkflow(id, "x") : id \in WorkflowIds}, MaxStored) :
                    DistinctIds(w)},
        as \in {a \in SeqsUpTo({StoredAction(id, "x") : id \in ActionIds}, MaxStored) :
                    DistinctIds(a)}}

\* The server after load returned a snapshot and the first session opened.
InitStore ==
    /\ shared_data \in Snapshots
    /\ lock = [writers |-> {}, readers |-> {}]
    /\ disk = [exists |-> TRUE, content |-> to_string_pretty(shared_data),
               result |-> "none"]
    /\ sessions = [s \in Sessions |->
          IF s = 1 THEN [NewSession EXCEPT !.status = "open"] ELSE NewSession]
    /\ builds = <<>>
    /\ listening = TRUE
    /\ spawned = 0
    /\ workdir = EmptyDir
    /\ servers = <<>>
    /\ connects = <<>>
    /\ returned = <<>>

NextStore ==
    \/ \E s \in Sessions, m \in StoreMessages : RecvText(s, m)
    \/ \E s \in Sessions : AcquireWrite(s)
    \/ \E s \in Sessions : SaveWorkflow(s)
    \/ \E s \in Sessions : DeleteWorkflow(s)
    \/ \E s \in Sessions : SaveAction(s)
    \/ \E s \in Sessions : DeleteAction(s)
    \/ \E s \in Sessions : Save(s)

StoreSpec == InitStore /\ [][NextStore]_vars

\* The messages of the sessions of RaceSpec: saves and deletes of one workflow
\* id and of one action id.
RaceMessages ==
    {Msg("SaveWorkflow", "w1", "x"), Msg("SaveWorkflow", "w1", "y"),
     Msg("DeleteWorkflow", "w1", ""),
     Msg("SaveAction", "a1", "x"), Msg("SaveAction", "a1", "y"),
     Msg("DeleteAction", "a1", "")}

\* The stores RaceSpec starts from: empty, or holding the workflow and the
\* action the messages are about.
RaceStores ==
    {EmptyData,
     [EmptyData EXCEPT !.workflows = <<StoredWorkflow("w1", "x")>>,
                       !.actions = <<StoredAction("a1", "x")>>]}

\* The server with two connections accepted and its snapshot on disk.
InitRace ==
    /\ shared_data \in RaceStores
    /\ lock = [writers |-> {}, readers |-> {}]
    /\ disk = [exists |-> TRUE, content |-> to_string_pretty(shared_data),
               result |-> "none"]
    /\ sessions = [s \in Sessions |-> [NewSession EXCEPT !.status = "open"]]
    /\ builds = <<>>
    /\ listening = TRUE
    /\ spawned = 0
    /\ workdir = EmptyDir
    /\ servers = <<>>
    /\ connects = <<>>
    /\ returned = <<>>

NextRace ==
    \/ \E s \in Sessions, m \in RaceMessages : RecvText(s, m)
    \/ \E s \in Sessions : AcquireWrite(s)
    \/ \E s \in Sessions : SaveWorkflow(s)
    \/ \E s \in Sessions : DeleteWorkflow(s)
    \/ \E s \in Sessions : SaveAction(s)
    \/ \E s \in Sessions : DeleteAction(s)
    \/ \E s \in Sessions : Save(s)

\* Two sessions sending saves and deletes of the same ids concurrently.
RaceSpec == InitRace /\ [][NextRace]_vars

\* ------------------------------------------- the desktop client's registry
\* The ids a command of the client can name: those Uuid::new_v4 has given to
\* a connection, and one it has given to none.
ServerIds == 1..(MaxConnects + 1)

\* ServerConnection::new: a fresh id, status Offline.
ServerConnection(id) == [id |-> id, status |-> "offline"]

\* connect up to connect_async(&url).await
connecting(server) == [server EXCEPT !.status = "connecting"]

\* connect from the result of connect_async on: Online and Ok(()), or Offline
\* and Err.
connected(server, ok) == [server EXCEPT !.status = IF ok THEN "online" ELSE "offline"]

\* ServerConnection::disconnect
disconnect(server) == [server EXCEPT !.status = "offline"]

\* disconnect_server: the first connection with the id is disconnected, if
\* there is one.
disconnect_server(list, server_id) ==
    LET i == find(list, server_id)
    IN  IF i = 0 THEN list ELSE [list EXCEPT ![i] = disconnect(@)]

\* start_build: Err for an id that is not registered and for a connection
\* that is not Online, otherwise Ok with a new build id.
start_build(list, server_id) ==
    LET i == find(list, server_id)
    IN  IF i = 0
        THEN [server_id |-> server_id, ok |-> FALSE, value |-> "Server not found"]
        ELSE IF list[i].status # "online"
        THEN [server_id |-> server_id, ok |-> FALSE, value |-> "Server is not online"]
        ELSE [server_id |-> server_id, ok |-> TRUE, value |-> "build id"]

\* A connect_server that registers the connection before it connects.
ConnectServer_registers_first ==
    /\ Len(connects) < MaxConnects
    /\ connects' = Append(connects,
          [server |-> connecting(ServerConnection(Len(connects) + 1)), pc |-> "connect"])
    /\ servers' = Append(servers, connecting(ServerConnection(Len(connects) + 1)))
    /\ UNCHANGED <<shared_data, lock, disk, sessions, builds, listening, spawned,
                   workdir, returned>>

\* connect_server up to the await in connect: the connection is created
\* and is Connecting.
ConnectServer ==
    /\ Len(connects) < MaxConnects
    /\ connects' = Append(connects,
          [server |-> connecting(ServerConnection(Len(connects) + 1)), pc |-> "connect"])
    /\ UNCHANGED <<shared_data, lock, disk, sessions, builds, listening, spawned,
                   workdir, servers, returned>>

\* connect_async has answered: `server.connect().await?` returns the error, or
\* the call goes on to state.servers.lock().await.
Connected(c) ==
    /\ c \in DOMAIN connects
    /\ connects[c].pc = "connect"
    /\ \E ok \in BOOLEAN :
          connects' = [connects EXCEPT ![c] =
              [server |-> connected(@.server, ok), pc |-> IF ok THEN "lock" ELSE "err"]]
    /\ UNCHANGED <<shared_data, lock, disk, sessions, builds, listening, spawned,
                   workdir, servers, returned>>

\* servers.push(server.clone()); Ok(server)
Register(c) ==
    /\ c \in DOMAIN connects
    /\ connects[c].pc = "lock"
    /\ servers' = Append(servers, connects[c].server)
    /\ connects' = [connects EXCEPT ![c] = [@ EXCEPT !.pc = "ok"]]
    /\ UNCHANGED <<shared_data, lock, disk, sessions, builds, listening, spawned,
                   workdir, returned>>

DisconnectServer(server_id) ==
    /\ servers' = disconnect_server(servers, server_id)
    /\ UNCHANGED <<shared_data, lock, disk, sessions, builds, listening, spawned,
                   workdir, connects, returned>>

StartBuild(server_id) ==
    /\ Len(returned) < MaxStarts
    /\ returned' = Append(returned, start_build(servers, server_id))
    /\ UNCHANGED <<shared_data, lock, disk, sessions, builds, listening, spawned,
                   workdir, servers, connects>>

NextClient ==
    \/ ConnectServer
    \/ \E c \in DOMAIN connects : Connected(c)
    \/ \E c \in DOMAIN connects : Register(c)
    \/ \E server_id \in ServerIds : DisconnectServer(server_id)
    \/ \E server_id \in ServerIds : StartBuild(server_id)

\* The desktop client from its start: connect_server, disconnect_server and
\* start_build called concurrently.
ClientSpec == Init /\ [][NextClient]_vars

\* =================================================================== claims
\* Graph notions, stated without the sort.
UniqueIds(nodes) == \A i, j \in DOMAIN nodes : i # j => nodes[i].id # nodes[j].id

\* Every edge joins two nodes of the graph.
Resolves(nodes, edges) ==
    \A i \in DOMAIN edges :
        edges[i].source \in IdsOf(nodes) /\ edges[i].target \in IdsOf(nodes)

\* The pairs (a, b) of node ids with a path of at least one edge from a to b
\* that passes through node ids only.
RECURSIVE Closure(_, _, _)
Closure(R, ids, k) ==
    IF k = 0 THEN R
    ELSE Closure(R \cup {<<a, c>> \in ids \X ids :
                            \E b \in ids : <<a, b>> \in R /\ <<b, c>> \in R},
                 ids, k - 1)

Paths(nodes, edges) ==
    LET ids == IdsOf(nodes)
    IN  Closure({<<a, b>> \in ids \X ids :
                    \E i \in DOMAIN edges :
                        edges[i].source = a /\ edges[i].target = b},
                ids, Cardinality(ids))

HasCycle(nodes, edges) == \E a \in IdsOf(nodes) : <<a, a>> \in Paths(nodes, edges)

\* The position of node id in a sorted node list (0 when it is not there).
PositionOf(order, id) ==
    IF \E i \in DOMAIN order : order[i].id = id
    THEN CHOOSE i \in DOMAIN order : order[i].id = id
    ELSE 0

\* execute_build has returned (the task is at or past the push of the record).
Returned(task) == task.pc \in {"record", "locked", "saving", "done"}

\* C1: for a build graph with unique node ids whose edges join nodes of the graph
\* and contain no cycle, topological_sort returns no error but an order that
\* holds every node exactly once with the source of every edge before its
\* target, and execute_build runs the nodes in exactly that order: what has run
\* is always the beginning of the order, and all of it when the build succeeds.
C1_TopologicalOrder ==
    \A b \in DOMAIN builds :
        LET task == builds[b]
        IN  (/\ UniqueIds(task.nodes)
             /\ Resolves(task.nodes, task.edges)
             /\ ~HasCycle(task.nodes, task.edges)
             /\ task.pc # "sort")
            => /\ task.result # CircularError
               /\ Len(task.order) = Len(task.nodes)
               /\ \A i \in DOMAIN task.nodes :
                     Cardinality({j \in DOMAIN task.order :
                                     task.order[j] = task.nodes[i]}) = 1
               /\ \A i \in DOMAIN task.edges :
                     PositionOf(task.order, task.edges[i].source)
                        < PositionOf(task.order, task.edges[i].target)
               /\ Len(task.ran) <= Len(task.order)
               /\ \A k \in DOMAIN task.ran : task.ran[k] = task.order[k].id
               /\ (task.pc = "run" => Len(task.ran) = task.index - 1)
               /\ (task.result = "ok" => Len(task.ran) = Len(task.order))

\* C1 witness: nodes listed as C, B, A with edges A->B and B->C have run as
\* A, B, C and the build has succeeded.
C1_Witness ==
    \E b \in DOMAIN builds :
        /\ builds[b].nodes = <<BuildNode("C"), BuildNode("B"), BuildNode("A")>>
        /\ builds[b].edges = <<BuildEdge("B", "C"), BuildEdge("A", "B")>>
        /\ builds[b].ran = <<"A", "B", "C">>
        /\ builds[b].result = "ok"
        /\ Returned(builds[b])

\* C2: for a build graph with a cycle among its nodes, topological_sort returns
\* the circular-dependency error and execute_build returns it before running any
\* node, the nodes outside the cycle included.
C2_CycleRunsNothing ==
    \A b \in DOMAIN builds :
        LET task == builds[b]
        IN  (HasCycle(task.nodes, task.edges) /\ task.pc # "sort")
            => /\ Returned(task)
               /\ task.result = CircularError
               /\ task.order = <<>>
               /\ task.ran = <<>>

\* C2 witness: A and B depend on each other, C is on no cycle; the build has
\* ended with the error and has run nothing.
C2_Witness ==
    \E b \in DOMAIN builds :
        /\ builds[b].nodes = <<BuildNode("C"), BuildNode("A"), BuildNode("B")>>
        /\ builds[b].edges = <<BuildEdge("A", "B"), BuildEdge("B", "A")>>
        /\ builds[b].pc = "done"
        /\ builds[b].result = CircularError
        /\ builds[b].ran = <<>>

\* The build tasks past the push of their record.
Done == {b \in DOMAIN builds : builds[b].pc \in {"saving", "done"}}

\* C3: every BuildStart handled by a session has one build task, and once that
\* task has ended build_history holds exactly one more record, with the
\* build_id of the payload and a finished_at that is not None, whatever
\* execute_build returned: the records are as many as the ended tasks, id by id.
C3_OneRecordPerBuild ==
    /\ \A a, b \in DOMAIN builds :
          a # b => <<builds[a].session, builds[a].req>> # <<builds[b].session, builds[b].req>>
    /\ \A b \in DOMAIN builds :
          /\ builds[b].req <= sessions[builds[b].session].handled
          /\ builds[b].build_id \in BuildIds
    /\ Len(shared_data.build_history) = Cardinality(Done)
    /\ \A id \in BuildIds :
          Cardinality({i \in DOMAIN shared_data.build_history :
                          shared_data.build_history[i].id = id})
            = Cardinality({b \in Done : builds[b].build_id = id})
    /\ \A i \in DOMAIN shared_data.build_history :
          shared_data.build_history[i].finished_at # "None"

\* C3 witness: one build has ended with a failed node, another with success,
\* and the history holds the two records.
C3_Witness ==
    /\ \E a, b \in Done :
          /\ builds[a].pc = "done"
          /\ builds[a].result = "Command failed"
          /\ builds[b].pc = "done"
          /\ builds[b].result = "ok"
    /\ Len(shared_data.build_history) = 2

\* What an upsert of new into old gives.
Upserted(old, new, e) ==
    IF \E i \in DOMAIN old : old[i].id = e.id
    THEN /\ Len(new) = Len(old)
         /\ \E i \in DOMAIN old :
               /\ old[i].id = e.id
               /\ new[i] = e
               /\ \A j \in DOMAIN old : j # i => new[j] = old[j]
    ELSE /\ Len(new) = Len(old) + 1
         /\ new[Len(new)] = e
         /\ \A j \in DOMAIN old : new[j] = old[j]

\* The step of session s that ends its handling of a message of this type.
Commits(s, type) ==
    /\ sessions[s].pc = "write_locked"
    /\ sessions[s].msg.type = type
    /\ sessions'[s] # sessions[s]

\* C4: SaveWorkflow and SaveAction are upsert-by-id: an entry with the id is
\* replaced by the new content at its position and the size stays; without such
\* an entry the new one is appended and the size grows by one.
C4_SaveIsUpsert ==
    [][\A s \in Sessions :
          /\ Commits(s, "SaveWorkflow") =>
                Upserted(shared_data.workflows, shared_data'.workflows,
                         StoredWorkflow(sessions[s].msg.id, sessions[s].msg.body))
          /\ Commits(s, "SaveAction") =>
                Upserted(shared_data.actions, shared_data'.actions,
                         StoredAction(sessions[s].msg.id, sessions[s].msg.body))]_vars

\* C4 witness: from the snapshot w2, w1 the session has replaced w1 in place and
\* appended w3.
C4_Witness ==
    /\ shared_data.workflows =
          <<StoredWorkflow("w2", "x"), StoredWorkflow("w1", "y"), StoredWorkflow("w3", "x")>>
    /\ sessions[1].handled = 2
    /\ sessions[1].msg.type = "SaveWorkflow"

\* What a delete of id from old gives: the entries of another id, in their order.
Deleted(old, new, id) ==
    LET kept == {i \in DOMAIN old : old[i].id # id}
    IN  /\ Len(new) = Cardinality(kept)
        /\ \A k \in DOMAIN new :
              new[k] = old[CHOOSE i \in kept : Cardinality({j \in kept : j <= i}) = k]
        /\ \A k \in DOMAIN new : new[k].id # id
        /\ (\A i \in DOMAIN old : old[i].id # id) => new = old

\* C5: DeleteWorkflow and DeleteAction leave no entry with the id and keep the
\* others in their order; with the id absent the collection is unchanged; the
\* session reports nothing and goes on reading, so a second delete of the id
\* changes nothing.
C5_DeleteIsIdempotent ==
    [][\A s \in Sessions :
          /\ Commits(s, "DeleteWorkflow") =>
                /\ Deleted(shared_data.workflows, shared_data'.workflows, sessions[s].msg.id)
                /\ shared_data'.actions = shared_data.actions
          /\ Commits(s, "DeleteAction") =>
                /\ Deleted(shared_data.actions, shared_data'.actions, sessions[s].msg.id)
                /\ shared_data'.workflows = shared_data.workflows
          /\ (Commits(s, "DeleteWorkflow") \/ Commits(s, "DeleteAction")) =>
                /\ sessions'[s].status = "open"
                /\ sessions'[s].pc = "saving"
                /\ sessions'[s].out = sessions[s].out
          /\ (/\ sessions[s].pc = "saving"
              /\ sessions[s].msg.type \in {"DeleteWorkflow", "DeleteAction"}
              /\ sessions'[s] # sessions[s]) =>
                /\ sessions'[s].status = "open"
                /\ sessions'[s].pc = "read"
                /\ sessions'[s].out = sessions[s].out
                /\ shared_data' = shared_data]_vars

\* C5 witness: w2 has been deleted from between w1 and w3 (the file still holds
\* the three: the save after the delete failed).
C5_Witness ==
    /\ sessions[1].msg = Msg("DeleteWorkflow", "w2", "")
    /\ sessions[1].pc = "read"
    /\ load(disk).data.workflows =
          <<StoredWorkflow("w1", "x"), StoredWorkflow("w2", "x"), StoredWorkflow("w3", "x")>>
    /\ shared_data.workflows = <<StoredWorkflow("w1", "x"), StoredWorkflow("w3", "x")>>

\* The tasks whose position in the code is under a write guard / a read guard.
WriteHolders ==
    {SessionHolder(s) : s \in {t \in Sessions :
        sessions[t].pc \in {"write_locked", "saving"}}}
    \cup {BuildHolder(b) : b \in {t \in DOMAIN builds :
        builds[t].pc \in {"locked", "saving"}}}

ReadHolders ==
    {SessionHolder(s) : s \in {t \in Sessions :
        sessions[t].pc \in {"sync_locked", "action_locked", "action_running"}}}

LockDiscipline ==
    /\ lock.writers = WriteHolders
    /\ lock.readers = ReadHolders
    /\ Cardinality(lock.writers) <= 1
    /\ lock.writers # {} => lock.readers = {}

\* C6: at every moment the lock is held by nobody, by readers only or by exactly
\* one writer and no reader, the holders being the tasks under a guard; and
\* every step that changes the aggregate is a step of the one writer.
C6_ReadersOrOneWriter ==
    [][/\ LockDiscipline
       /\ LockDiscipline'
       /\ shared_data' # shared_data =>
             /\ Cardinality(lock.writers) = 1
             /\ lock.readers = {}
             /\ \A s \in Sessions :
                   SessionHolder(s) \in lock.writers => sessions'[s] # sessions[s]
             /\ \A b \in DOMAIN builds :
                   BuildHolder(b) \in lock.writers => builds'[b] # builds[b]]_vars

\* C6 witness: a session holds the write lock while a build task that has
\* finished its nodes waits for it.
C6_Witness ==
    /\ \E s \in Sessions : lock.writers = {SessionHolder(s)}
    /\ \E b \in DOMAIN builds : builds[b].pc = "record"

\* C7: RunAction for an action id that is not in the store: the session sends
\* one Error reply that holds the requested id, no child process is started, the
\* store is unchanged and the session goes on reading (unless the write to the
\* stream itself fails, which ends the session).
C7_RunActionNotFound ==
    [][\A s \in Sessions :
          (/\ sessions[s].status = "open"
           /\ sessions[s].msg.type = "RunAction"
           /\ sessions[s].pc \in {"handle", "action_locked"}
           /\ find(shared_data.actions, sessions[s].msg.id) = 0
           /\ sessions'[s] # sessions[s])
          => /\ shared_data' = shared_data
             /\ disk' = disk
             /\ spawned' = spawned
             /\ \/ /\ sessions[s].pc = "handle"
                   /\ sessions'[s] = [sessions[s] EXCEPT !.pc = "action_locked"]
                \/ /\ sessions[s].pc = "action_locked"
                   /\ sessions'[s].status = "open"
                   /\ sessions'[s].pc = "read"
                   /\ Len(sessions'[s].out) = Len(sessions[s].out) + 1
                   /\ SubSeq(sessions'[s].out, 1, Len(sessions[s].out)) = sessions[s].out
                   /\ LET r == sessions'[s].out[Len(sessions'[s].out)]
                      IN  /\ r.type = "Error"
                          /\ r.req = sessions[s].recv
                          /\ \E k \in DOMAIN r.output : r.output[k] = sessions[s].msg.id
                \/ /\ sessions[s].pc = "action_locked"
                   /\ sessions'[s].status = "failed"
                   /\ sessions'[s].err = "send"
                   /\ sessions'[s].out = sessions[s].out]_vars

\* C7 witness: a session has answered RunAction(a1) with the Error naming a1, no
\* child was ever started and the session is reading again.
C7_Witness ==
    \E s \in Sessions :
        /\ sessions[s].status = "open"
        /\ sessions[s].pc = "read"
        /\ sessions[s].msg = Msg("RunAction", "a1", "")
        /\ sessions[s].out # <<>>
        /\ sessions[s].out[Len(sessions[s].out)].type = "Error"
        /\ sessions[s].out[Len(sessions[s].out)].output = <<"Action not found: ", "a1">>
        /\ spawned = 0
        /\ lock.readers = {}

\* C8: a text frame that does not decode ends its session only: the session
\* returns the decode error and never acts again, the store, the file, the lock
\* and the builds are unchanged by the frame, every other session is untouched
\* and the accept loop goes on.
C8_DecodeErrorEndsSessionOnly ==
    [][\A s \in Sessions :
          /\ (sessions[s].status = "open" /\ sessions'[s].err = "decode")
             => /\ sessions'[s].status = "failed"
                /\ sessions'[s].pc = "returned"
                /\ sessions'[s].out = sessions[s].out
                /\ shared_data' = shared_data
                /\ disk' = disk
                /\ lock' = lock
                /\ builds' = builds
                /\ listening'
                /\ \A t \in Sessions \ {s} : sessions'[t] = sessions[t]
          /\ sessions[s].status \in {"failed", "closed"} => sessions'[s] = sessions[s]
          /\ listening /\ listening']_vars

\* C8 witness: session 1 has ended with the decode error, session 2 is open and
\* has been answered, the accept loop runs.
C8_Witness ==
    /\ sessions[1].status = "failed"
    /\ sessions[1].err = "decode"
    /\ sessions[2].status = "open"
    /\ sessions[2].out # <<>>
    /\ listening

\* C9: a session handles one message at a time: at read.next() every frame read
\* has been handled, in a handler exactly the last frame read is being handled;
\* the replies are on the stream in the arrival order of their requests.
C9_OneMessageAtATime ==
    \A s \in Sessions :
        /\ sessions[s].pc = "read" => sessions[s].handled = sessions[s].recv
        /\ sessions[s].pc \notin {"read", "returned"} =>
              sessions[s].recv = sessions[s].handled + 1
        /\ sessions[s].pc = "returned" =>
              sessions[s].recv - sessions[s].handled \in {0, 1}
        /\ \A i \in DOMAIN sessions[s].out :
              /\ sessions[s].out[i].req \in 1..sessions[s].handled
              /\ \A j \in DOMAIN sessions[s].out :
                    i < j => sessions[s].out[i].req < sessions[s].out[j].req

\* C9 witness: a session has answered its first request, then its second.
C9_Witness ==
    \E s \in Sessions :
        /\ Len(sessions[s].out) = 2
        /\ sessions[s].out[1].type = "SyncResponse"
        /\ sessions[s].out[2].type = "Pong"
        /\ sessions[s].handled = 2

\* C10: the BuildStart arm does not wait for the build: as long as a build task
\* exists, ended or not, the handling of its BuildStart has ended in its
\* session, which is free to handle later messages while the build runs.
C10_BuildStartDetaches ==
    \A b \in DOMAIN builds :
        LET se == sessions[builds[b].session]
        IN  /\ se.handled >= builds[b].req
            /\ se.pc # "handle" \/ se.recv > builds[b].req

\* C10 witness: a session has answered a Ping that came after its BuildStart
\* while that build has sorted its nodes and not run the first yet.
C10_Witness ==
    \E b \in DOMAIN builds :
        /\ builds[b].pc = "run"
        /\ builds[b].ran = <<>>
        /\ \E i \in DOMAIN sessions[builds[b].session].out :
              /\ sessions[builds[b].session].out[i].type = "Pong"
              /\ sessions[builds[b].session].out[i].req > builds[b].req

\* C11: when the child process of a command or script node exits with a
\* non-zero status, execute_build has returned that node's error: the node is
\* the last one that ran, every node before it in the order has run with
\* status 0, and no node after it in the order ever runs.
C11_FailureAbortsBuild ==
    \A b \in DOMAIN builds :
        LET task == builds[b]
        IN  /\ Len(task.exits) = Len(task.ran)
            /\ \A k \in DOMAIN task.exits :
                  ~task.exits[k] =>
                     /\ task.order[k].node_type \in {"command", "script"}
                     /\ Returned(task)
                     /\ task.result = node_error(task.order[k])
                     /\ task.result # "ok"
                     /\ Len(task.ran) = k
                     /\ \A j \in 1..k : task.ran[j] = task.order[j].id
                     /\ \A j \in 1..(k - 1) : task.exits[j]
                     /\ \A j \in (k + 1)..Len(task.order) :
                           \A i \in DOMAIN task.ran : task.ran[i] # task.order[j].id

\* C11 witness: in the order A, B, C the script node B has exited non-zero
\* after A ran; the task has ended with the script error and C never ran.
C11_Witness ==
    \E b \in DOMAIN builds :
        /\ Len(builds[b].order) = 3
        /\ builds[b].order[1].id = "A"
        /\ builds[b].order[2].id = "B"
        /\ builds[b].order[3].id = "C"
        /\ builds[b].exits = <<TRUE, FALSE>>
        /\ builds[b].ran = <<"A", "B">>
        /\ builds[b].result = "Script failed"
        /\ builds[b].pc = "done"

\* The messages of a type on the stream of session s.
Sent(s, type) == {i \in DOMAIN sessions[s].out : sessions[s].out[i].type = type}

\* C12: for every build task that has ended, with success or with a failure,
\* a BuildComplete event with the build_id and the success flag of the build is
\* on the stream of the session that received its BuildStart.
C12_BuildCompleteSent ==
    \A b \in DOMAIN builds :
        builds[b].pc = "done" =>
            \E i \in Sent(builds[b].session, "BuildComplete") :
                /\ sessions[builds[b].session].out[i].id = builds[b].build_id
                /\ sessions[builds[b].session].out[i].success = (builds[b].result = "ok")

\* C13: for each node at position i (from 0) of a build with n nodes that has
\* started, a BuildProgress event of the build is on the stream of its session
\* with progress = floor(100 * i / n) and the node as current_node; the
\* progress computed for the node is that value and lies in 0..100.
C13_ProgressReported ==
    \A b \in DOMAIN builds :
        LET task == builds[b]
            n    == Len(task.order)
        IN  /\ task.ran # <<>> =>
                  /\ task.progress = (100 * (Len(task.ran) - 1)) \div n
                  /\ task.progress \in 0..100
            /\ \A k \in DOMAIN task.ran :
                  \E i \in Sent(task.session, "BuildProgress") :
                      /\ sessions[task.session].out[i].id = task.build_id
                      /\ sessions[task.session].out[i].output =
                            <<(100 * (k - 1)) \div n, task.order[k].id>>

\* C14: every mutating task (a session in a Save or Delete arm, a build task
\* appending its record) is the one holder of the write lock from before its
\* change of the aggregate until its write of the file is over, and what it is
\* about to write is the aggregate as it is now; so whenever no writer holds
\* the lock and the last save has not failed, the file decodes to the
\* in-memory aggregate, and no write ever puts an older snapshot over a newer.
C14_SnapshotFollowsStore ==
    /\ \A s \in Sessions :
          /\ sessions[s].pc \in {"write_locked", "saving"} =>
                lock = [writers |-> {SessionHolder(s)}, readers |-> {}]
          /\ sessions[s].pc = "saving" =>
                sessions[s].content = to_string_pretty(shared_data)
    /\ \A b \in DOMAIN builds :
          /\ builds[b].pc \in {"locked", "saving"} =>
                lock = [writers |-> {BuildHolder(b)}, readers |-> {}]
          /\ builds[b].pc = "saving" =>
                builds[b].content = to_string_pretty(shared_data)
    /\ (lock.writers = {} /\ disk.result # "err") =>
          load(disk) = [ok |-> TRUE, data |-> shared_data]

\* C14 witness: two sessions have saved the same workflow with different
\* content, the save of session 1 coming last; both saves are over, the last
\* one succeeded, and the file holds what memory holds.
C14_Witness ==
    /\ lock.writers = {}
    /\ disk.result = "ok"
    /\ sessions[1].msg = Msg("SaveWorkflow", "w1", "x")
    /\ sessions[2].msg = Msg("SaveWorkflow", "w1", "y")
    /\ sessions[1].pc = "read"
    /\ sessions[2].pc = "read"
    /\ sessions[1].handled = 1
    /\ sessions[2].handled = 1
    /\ shared_data.workflows = <<StoredWorkflow("w1", "x")>>
    /\ load(disk).data = shared_data

\* The step in which a task ends its data.save.
Saves(task, after) == task.pc = "saving" /\ after # task

\* C15: whatever data.save returns, the change made before it stays in the
\* aggregate, the session that made it stays open, reports nothing and reads
\* its next message; a save that succeeds leaves a file that decodes to the
\* whole current aggregate (earlier changes whose save failed included), one
\* that fails leaves the file as it was or cut short; every SyncResponse shows
\* the aggregate as it is in memory, not as it is in the file.
C15_SaveFailureIsNotFatal ==
    [][/\ \A s \in Sessions :
             /\ Saves(sessions[s], sessions'[s]) =>
                   /\ shared_data' = shared_data
                   /\ sessions'[s] = [sessions[s] EXCEPT !.pc = "read",
                                          !.handled = @ + 1, !.content = JNull]
                   /\ disk'.result = "ok" =>
                         load(disk') = [ok |-> TRUE, data |-> shared_data]
                   /\ disk'.result # "ok" =>
                         /\ disk'.result = "err"
                         /\ \/ [disk' EXCEPT !.result = disk.result] = disk
                            \/ (disk'.exists /\ ~load(disk').ok)
             /\ (sessions[s].pc = "sync_locked" /\ Len(sessions'[s].out) > Len(sessions[s].out)) =>
                   sessions'[s].out[Len(sessions'[s].out)].sync = SyncData
       /\ \A b \in DOMAIN builds :
             Saves(builds[b], builds'[b]) =>
                /\ shared_data' = shared_data
                /\ sessions' = sessions
                /\ builds'[b].pc = "done"
                /\ disk'.result = "ok" =>
                      load(disk') = [ok |-> TRUE, data |-> shared_data]]_vars

\* C15 witness: the save of session 1's SaveWorkflow has failed and nothing
\* is in the file; session 1 is open and reading, and session 2 has since
\* been answered a SyncResponse that holds the workflow.
C15_Witness ==
    /\ disk.result = "err"
    /\ load(disk).data.workflows = <<>>
    /\ shared_data.workflows = <<StoredWorkflow("w1", "x")>>
    /\ sessions[1].msg = Msg("SaveWorkflow", "w1", "x")
    /\ sessions[1].status = "open"
    /\ sessions[1].pc = "read"
    /\ sessions[1].handled = 1
    /\ sessions[1].err = ""
    /\ sessions[2].out # <<>>
    /\ sessions[2].out[1].type = "SyncResponse"
    /\ sessions[2].out[1].sync.workflows = <<StoredWorkflow("w1", "x")>>

C17_SyncRequestReadsStore ==
    [][/\ \A s \in Sessions :
             (/\ sessions[s].status = "open"
              /\ sessions[s].msg.type = "SyncRequest"
              /\ sessions[s].pc \in {"handle", "sync_locked"}
              /\ sessions'[s] # sessions[s])
             => /\ shared_data' = shared_data
                /\ disk' = disk
                /\ \/ /\ sessions[s].pc = "handle"
                      /\ sessions'[s] = [sessions[s] EXCEPT !.pc = "sync_locked"]
                   \/ /\ sessions[s].pc = "sync_locked"
                      /\ sessions'[s] =
                            [sessions[s] EXCEPT
                                !.pc = "read", !.handled = @ + 1,
                                !.out = Append(@,
                                    Reply(sessions[s].recv, "SyncResponse", "", TRUE, <<>>,
                                          [workflows |-> shared_data.workflows,
                                           actions |-> shared_data.actions,
                                           repos |-> shared_data.repos]))]
                   \/ /\ sessions[s].pc = "sync_locked"
                      /\ sessions'[s].status = "failed"
                      /\ sessions'[s].err = "send"
                      /\ sessions'[s].out = sessions[s].out
       /\ (\E s \in Sessions : sessions[s].pc = "sync_locked") =>
             shared_data' = shared_data]_vars

\* C17 witness: session 1 has saved workflow w1 and its save is over; session
\* 2, which sent nothing else, has been answered one SyncResponse holding w1.
C17_Witness ==
    /\ sessions[1].msg = Msg("SaveWorkflow", "w1", "y")
    /\ sessions[1].handled = 1
    /\ disk.result = "ok"
    /\ sessions[2].msg = Msg("SyncRequest", "", "")
    /\ sessions[2].handled = 1
    /\ Len(sessions[2].out) = 1
    /\ sessions[2].out[1].type = "SyncResponse"
    /\ sessions[2].out[1].sync =
          [workflows |-> <<StoredWorkflow("w1", "y")>>, actions |-> <<>>, repos |-> <<>>]
    /\ shared_data.workflows = <<StoredWorkflow("w1", "y")>>

\* C18: build_history is append-only: in every step the history before the
\* step is a prefix of the history after it (so the history of any earlier
\* state is a prefix of that of any later one): no step of any session or
\* build removes, reorders or modifies a record.
C18_HistoryAppendOnly ==
    [][/\ Len(shared_data.build_history) <= Len(shared_data'.build_history)
       /\ SubSeq(shared_data'.build_history, 1, Len(shared_data.build_history))
             = shared_data.build_history]_vars

\* C18 witness: the builds of two sessions have appended one record each, the
\* second after the first.
C18_Witness ==
    /\ Len(builds) = 2
    /\ builds[1].session # builds[2].session
    /\ builds[1].pc = "done"
    /\ builds[2].pc = "saving"
    /\ shared_data.build_history = <<BuildRecord("b2", 2), BuildRecord("b1", 3)>>

\* C19: from the empty store, in every reachable state no two entries of one
\* collection share an id, in workflows, actions, repos and build_history
\* alike, also after BuildStart messages that carry the same build_id.
C19_IdsUniquePerCollection ==
    /\ DistinctIds(shared_data.workflows)
    /\ DistinctIds(shared_data.actions)
    /\ DistinctIds(shared_data.repos)
    /\ DistinctIds(shared_data.build_history)

\* The types a message of type t is answered with, when it is answered.
Answers(t) ==
    CASE t = "Ping"        -> {"Pong"}
      [] t = "SyncRequest" -> {"SyncResponse"}
      [] t = "RunAction"   -> {"ActionResult", "Error"}
      [] OTHER             -> {}

\* C20: the reply discipline of a session. The stream only grows, and only in
\* the step that ends the handling of a Ping, a SyncRequest or a RunAction, by
\* exactly one message: a Pong, a SyncResponse, an ActionResult or Error, which
\* answers that request (a failed write to the stream ends the session
\* instead). The handling of SaveWorkflow, DeleteWorkflow, SaveAction,
\* DeleteAction, BuildStart, BuildCancel and of the server-to-client kinds
\* writes nothing to the stream; the handling of a server-to-client kind also
\* leaves the store, the file and the builds as they are and the session open.
C20_ReplyDiscipline ==
    [][\A s \in Sessions :
          LET se    == sessions[s]
              after == sessions'[s]
              t     == se.msg.type
          IN  /\ (se.pc = "read" \/ after = se) => after.out = se.out
              /\ (se.pc # "read" /\ after # se) =>
                    /\ after.pc \notin {"read", "returned"} => after.out = se.out
                    /\ after.pc = "returned" =>
                          /\ after.out = se.out
                          /\ after.err = "send"
                          /\ Answers(t) # {}
                    /\ after.pc = "read" =>
                          /\ after.status = "open"
                          /\ after.handled = se.handled + 1
                          /\ Answers(t) = {} => after.out = se.out
                          /\ Answers(t) # {} =>
                                /\ Len(after.out) = Len(se.out) + 1
                                /\ SubSeq(after.out, 1, Len(se.out)) = se.out
                                /\ after.out[Len(after.out)].type \in Answers(t)
                                /\ after.out[Len(after.out)].req = se.recv
                    /\ t \in ServerToClient =>
                          /\ after.status = "open"
                          /\ after.pc = "read"
                          /\ shared_data' = shared_data
                          /\ disk' = disk
                          /\ lock' = lock
                          /\ builds' = builds]_vars

\* C20 witness: the session has answered a Ping with one Pong and has then
\* handled an inbound SyncResponse without writing anything; it is open.
C20_Witness ==
    /\ sessions[1].status = "open"
    /\ sessions[1].pc = "read"
    /\ sessions[1].handled = 2
    /\ sessions[1].msg = Msg("SyncResponse", "", "")
    /\ Len(sessions[1].out) = 1
    /\ sessions[1].out[1].type = "Pong"
    /\ sessions[1].out[1].req = 1
    /\ shared_data = EmptyData

\* The steps that end the RunAction of session s for an action of the store:
\* bash could not be started, or the child has ended.
RunsAction(s) ==
    /\ sessions[s].status = "open"
    /\ \/ sessions[s].pc = "action_running"
       \/ /\ sessions[s].pc = "action_locked"
          /\ find(shared_data.actions, sessions[s].msg.id) # 0
    /\ sessions'[s] # sessions[s]
    /\ sessions'[s].pc # "action_running"

\* C21: RunAction for an action of the store is answered with exactly one
\* ActionResult that holds the requested action id: success with the combined
\* stdout+stderr when the script exits 0, failure with a detail that contains
\* the combined stdout+stderr when it exits non-zero, failure too when bash
\* cannot be run; the store and its snapshot are unchanged and the session goes
\* on reading (unless the write to the stream itself fails).
C21_RunActionAnswers ==
    [][\A s \in Sessions :
          RunsAction(s)
          => /\ shared_data' = shared_data
             /\ disk' = disk
             /\ sessions'[s].exit \in ActionExits
             /\ \/ /\ sessions'[s].status = "failed"
                   /\ sessions'[s].err = "send"
                \/ /\ sessions'[s].status = "open"
                   /\ sessions'[s].pc = "read"
                   /\ sessions'[s].handled = sessions[s].handled + 1
                   /\ Len(sessions'[s].out) = Len(sessions[s].out) + 1
                   /\ SubSeq(sessions'[s].out, 1, Len(sessions[s].out)) = sessions[s].out
                   /\ LET r    == sessions'[s].out[Len(sessions'[s].out)]
                          exit == sessions'[s].exit
                      IN  /\ r.type = "ActionResult"
                          /\ r.req = sessions[s].recv
                          /\ r.id = sessions[s].msg.id
                          /\ r.success = (exit = "exit0")
                          /\ exit = "exit0" => r.output = <<"stdout+stderr">>
                          /\ exit = "nonzero" =>
                                \E i \in DOMAIN r.output : r.output[i] = "stdout+stderr"]_vars

\* C21 witness: the action saved by the session was run and exited non-zero;
\* the failure was answered, the session reads on and the store still holds
\* the action.
C21_Witness ==
    \E s \in Sessions :
        /\ sessions[s].status = "open"
        /\ sessions[s].pc = "read"
        /\ sessions[s].msg = Msg("RunAction", "a1", "")
        /\ sessions[s].exit = "nonzero"
        /\ sessions[s].out =
              <<Reply(2, "ActionResult", "a1", FALSE,
                      <<"Script failed: ", "stdout+stderr">>, EmptySync)>>
        /\ shared_data.actions = <<StoredAction("a1", "x")>>
        /\ spawned = 1

\* The session that started build task b has ended: the client closed the
\* connection, or an error returned from handle_connection.
Orphaned(b) ==
    /\ b \in DOMAIN builds
    /\ sessions[builds[b].session].status \in {"closed", "failed"}

\* Build task b has come to its end: execute_build has returned, having run
\* every node of the order unless it returned an error, and the record of the
\* build is in the history, after which the snapshot was written.
Completed(b) ==
    /\ b \in DOMAIN builds
    /\ builds[b].pc = "done"
    /\ builds[b].result \in {"ok", CircularError, "Command failed"}
    /\ builds[b].result = "ok" =>
          builds[b].ran = [i \in DOMAIN builds[b].order |-> builds[b].order[i].id]
    /\ Cardinality({i \in DOMAIN shared_data.build_history :
                       shared_data.build_history[i].id = builds[b].build_id})
          >= Cardinality({a \in DOMAIN builds :
                             /\ builds[a].build_id = builds[b].build_id
                             /\ builds[a].pc = "done"})

\* C22: a build whose session has ended while the build was not finished still
\* comes to its end: it runs its remaining nodes, appends its BuildRecord and
\* writes the snapshot.
C22_BuildOutlivesSession ==
    \A b \in 1..MaxMsgs : (Orphaned(b) /\ builds[b].pc # "done") ~> Completed(b)

\* C22 witness: the session of a build has ended and the build has not sorted
\* its nodes yet.
C22_Witness ==
    \E b \in DOMAIN builds :
        /\ Orphaned(b)
        /\ builds[b].pc = "sort"
        /\ builds[b].nodes = GraphNodes("single")
        /\ shared_data.build_history = <<>>

\* execute_build of task b returns an error in this step.
BuildFails(b) ==
    /\ builds[b].result = "running"
    /\ builds'[b].result \notin {"running", "ok"}

\* C23: the step in which execute_build returns an error (a failed node, a
\* cycle, a child process that cannot be started) changes nothing but its own build task: every session is as it was,
\* none closed or failed, every other build is as it was, the accept loop is
\* running and the store is untouched; the task goes on to its record.
C23_BuildErrorStaysInTask ==
    [][\A b \in DOMAIN builds :
          BuildFails(b)
          => /\ sessions' = sessions
             /\ listening /\ listening'
             /\ \A a \in DOMAIN builds : a # b => builds'[a] = builds[a]
             /\ shared_data' = shared_data
             /\ lock' = lock
             /\ builds'[b].pc = "record"
             /\ builds'[b].result \in {CircularError, "Command failed", "io error"}]_vars

\* C23 witness: the build of one session could not start its child process
\* and the build of the other session has hit a cycle; both have pushed their
\* records, both sessions are open and reading and the accept loop is running.
C23_Witness ==
    /\ listening
    /\ \A s \in Sessions : sessions[s].status = "open" /\ sessions[s].pc = "read"
    /\ \E a, b \in DOMAIN builds :
          /\ builds[a].session # builds[b].session
          /\ builds[a].result = "io error"
          /\ builds[a].pc = "done"
          /\ builds[b].result = CircularError
          /\ builds[b].pc = "done"

\* The positions of the order of a task whose node has run and is of a type.
RanOfType(task, type) ==
    {k \in DOMAIN task.ran : task.order[k].node_type = type}

\* C24: once a script node of a build has finished, with exit status 0, with
\* another exit status or because its shell could not be started, the
\* temporary script file of the build does not exist.
C24_ScriptFileRemoved ==
    \A b \in DOMAIN builds :
        RanOfType(builds[b], "script") # {} =>
            fs_read(workdir.scripts, script_path(builds[b].build_id)) = NotFound

\* The files glob finds in the working directory.
MatchingFiles == {workdir.dist[i].path : i \in {j \in DOMAIN workdir.dist : workdir.dist[j].ok}}

\* The artifact nodes of a task that have run and whose path is a pattern.
Globbed(task) ==
    {k \in RanOfType(task, "artifact") : task.order[k].config = "ok"}

\* C25: an artifact node (whose path is a glob pattern) ends without error
\* whatever it matches, and the node after it runs; the artifact list holds
\* each matching file once per artifact node that has run and nothing else, so
\* it stays empty when nothing matches.
C25_ArtifactsCollected ==
    \A b \in DOMAIN builds :
        LET task == builds[b]
        IN  /\ \A k \in Globbed(task) :
                  /\ task.exits[k]
                  /\ k < Len(task.order) =>
                        \/ Len(task.ran) > k
                        \/ task.pc = "run" /\ task.index = k + 1
                  /\ k = Len(task.order) /\ k = Len(task.ran) => task.result = "ok"
            /\ \A i \in DOMAIN task.artifacts : task.artifacts[i] \in MatchingFiles
            /\ \A path \in MatchingFiles :
                  Cardinality({i \in DOMAIN task.artifacts : task.artifacts[i] = path})
                     = Cardinality(Globbed(task))

\* C25 witness: nothing matches in the working directory; the artifact node has
\* run, the command node after it has run too, the build ended well with no
\* artifact.
C25_Witness ==
    \E b \in DOMAIN builds :
        /\ workdir.dist = <<>>
        /\ builds[b].order = <<TypedNode("A", "artifact", "ok"), TypedNode("B", "command", "ok")>>
        /\ builds[b].ran = <<"A", "B">>
        /\ builds[b].exits = <<TRUE, TRUE>>
        /\ builds[b].result = "ok"
        /\ builds[b].artifacts = <<>>

\* The nodes of a task that have run and are a release node without a
\* credential, or of a type that is none of command, script, artifact, release.
Skips(task) ==
    {k \in DOMAIN task.ran :
        \/ task.order[k].node_type = "release" /\ task.token = "None"
        \/ task.order[k].node_type \notin {"command", "script", "artifact", "release"}}

\* C26: a release node run without a credential and a node of an unknown type
\* end without error and with a warning: the node after them runs, and a build
\* whose last node is one of them ends well.
C26_SkippedNodesDoNotAbort ==
    \A b \in DOMAIN builds :
        LET task == builds[b]
        IN  /\ \A k \in Skips(task) :
                  /\ task.exits[k]
                  /\ k < Len(task.order) =>
                        \/ Len(task.ran) > k
                        \/ task.pc = "run" /\ task.index = k + 1
                  /\ k = Len(task.order) => task.result = "ok"
            /\ task.warned = [i \in 1..Cardinality(Skips(task)) |->
                  task.order[CHOOSE k \in Skips(task) :
                                Cardinality({j \in Skips(task) : j < k}) = i - 1].id]

\* C26 witness: without a credential, a release node and then a node of an
\* unknown type have run, both with a warning, and the build ended well.
C26_Witness ==
    \E b \in DOMAIN builds :
        /\ builds[b].token = "None"
        /\ builds[b].order = <<TypedNode("A", "release", "ok"), TypedNode("B", "deploy", "ok")>>
        /\ builds[b].ran = <<"A", "B">>
        /\ builds[b].warned = <<"A", "B">>
        /\ builds[b].result = "ok"
        /\ builds[b].pc = "done"

\* Build task b is in flight when its cancellation has just been handled by
\* session s.
Cancelled(s, b) ==
    /\ b \in DOMAIN builds
    /\ sessions[s].msg = Msg("BuildCancel", builds[b].build_id, "")
    /\ sessions[s].handled = sessions[s].recv
    /\ sessions[s].recv > 0
    /\ builds[b].pc # "done"

\* C27: the handling of BuildCancel changes no build task, nothing in the store
\* or its snapshot and writes no reply, the session reads on; and a build that
\* is in flight once its cancellation has been handled still comes to its end:
\* its remaining nodes run, its record is pushed and the snapshot is written.
C27_BuildCancelHasNoEffect ==
    /\ [][\A s \in Sessions :
             (Handling(s, "BuildCancel") /\ sessions'[s] # sessions[s])
             => /\ builds' = builds
                /\ shared_data' = shared_data
                /\ disk' = disk
                /\ lock' = lock
                /\ workdir' = workdir
                /\ sessions'[s] = finished(sessions[s])
                /\ sessions'[s].out = sessions[s].out]_vars
    /\ \A b \in 1..MaxMsgs : (\E s \in Sessions : Cancelled(s, b)) ~> Completed(b)

\* C27 witness: the session has started the build "b1" and has handled the
\* request to cancel it while the build had not run its node yet.
C27_Witness ==
    \E s \in Sessions, b \in DOMAIN builds :
        /\ Cancelled(s, b)
        /\ sessions[s].status = "open"
        /\ sessions[s].pc = "read"
        /\ sessions[s].out = <<>>
        /\ builds[b].nodes = GraphNodes("single")
        /\ builds[b].pc = "run"
        /\ builds[b].ran = <<>>

\* The snapshot file cannot be loaded: it cannot be read or does not decode.
Unloadable(file) ==
    /\ file.exists
    /\ \/ file.content = Unreadable
       \/ ~IsObj(file.content, {"workflows", "actions", "repos", "build_history"})

\* C28: whatever the snapshot file is, main reaches its accept loop; it starts
\* with the empty aggregate when there is no file and when the file cannot be
\* read or decoded, and with the saved aggregate otherwise, leaving the file as
\* it is; and every later save that succeeds replaces the file, loadable or
\* not, by the aggregate of that moment.
C28_StartupSurvivesSnapshot ==
    /\ <>listening
    /\ [][/\ (~listening /\ listening') =>
                /\ disk' = disk
                /\ ~disk.exists => shared_data' = EmptyData
                /\ Unloadable(disk) => shared_data' = EmptyData
                /\ (disk.exists /\ ~Unloadable(disk)) =>
                      /\ shared_data' # EmptyData
                      /\ to_string_pretty(shared_data') = disk.content
          /\ (listening /\ disk' # disk /\ disk'.result = "ok") =>
                /\ disk'.exists
                /\ disk'.content = to_string_pretty(shared_data)
                /\ load(disk') = [ok |-> TRUE, data |-> shared_data]]_vars

\* C28 witness: the snapshot file was cut short and is still as main found it;
\* the server has started with the empty aggregate and a session has changed
\* it by the first SaveWorkflow, whose save is about to write the file.
C28_Witness ==
    /\ listening
    /\ disk = [exists |-> TRUE, content |-> Truncated, result |-> "none"]
    /\ shared_data = [EmptyData EXCEPT !.workflows = <<StoredWorkflow("w1", "y")>>]
    /\ \E s \in Sessions :
          /\ sessions[s].status = "open"
          /\ sessions[s].pc = "saving"
          /\ sessions[s].content = to_string_pretty(shared_data)

\* Session s holds a guard of the RwLock.
HoldsLock(s) == SessionHolder(s) \in lock.readers \cup lock.writers

\* C29: a session holds no guard of the store's lock while the child process
\* of an action runs and none in the step that writes a reply to its stream:
\* for SyncRequest and RunAction the guard was dropped before.
C29_NoLockAcrossAwait ==
    [][\A s \in Sessions :
          /\ sessions[s].pc = "action_running" => ~HoldsLock(s)
          /\ Len(sessions'[s].out) > Len(sessions[s].out) => ~HoldsLock(s)]_vars

\* C30: the order execute_build runs the nodes in is a function of the node
\* list and the edge list: whatever order the ready nodes come out of the
\* in-degree map, topological_sort returns the order the build has.
C30_OrderIsDeterministic ==
    \A b \in DOMAIN builds :
        builds[b].pc = "run" =>
            \A q \in initial_queues(builds[b].nodes, builds[b].edges) :
                topological_sort(builds[b].nodes, builds[b].edges, q).nodes = builds[b].order

\* C31: a build whose graph has an edge with a source or a target that is no
\* node of the graph is rejected: topological_sort returns an error and no
\* node of the build runs.
C31_DanglingEdgeRejected ==
    \A b \in DOMAIN builds :
        (~Resolves(builds[b].nodes, builds[b].edges) /\ builds[b].pc # "sort")
        => /\ builds[b].result \notin {"running", "ok"}
           /\ builds[b].order = <<>>
           /\ builds[b].ran = <<>>

\* C32: topological_sort reports the circular-dependency error only for a graph
\* that has a cycle: a build rejected with that error has a cycle among its
\* nodes, for every node list and edge list (repeated node ids, duplicate
\* edges, self-loops and edges naming unknown ids included).
C32_CycleErrorMeansCycle ==
    \A b \in DOMAIN builds :
        builds[b].result = CircularError
        => HasCycle(builds[b].nodes, builds[b].edges)

\* The reading of the clock a timestamp was written from.
parse_from_rfc3339(stamp) == (CHOOSE i \in DOMAIN Stamps : Stamps[i] = stamp) - 1

\* The records build_history holds for a build (those with its build_id).
RecordsOf(b) ==
    {shared_data.build_history[i] :
        i \in {j \in DOMAIN shared_data.build_history :
                  shared_data.build_history[j].id = builds[b].build_id}}

\* C33: the status of a committed BuildRecord tells how its build ended: the
\* record of a build that succeeded and the record of a build that failed (a
\* node failed, or the sort found a cycle) differ in status.
C33_StatusIsTerminalState ==
    \A b, c \in Done :
        (/\ builds[b].build_id # builds[c].build_id
         /\ builds[b].result = "ok"
         /\ builds[c].result # "ok")
        => \A r \in RecordsOf(b), q \in RecordsOf(c) : r.status # q.status

\* The reading of the task's clock when its i-th node started (after the sort
\* and the nodes before it) and when it ended.
NodeStart(i) == i

NodeEnd(i) == i + 1

\* C34: in the BuildRecord of a build, started_at is not later than the moment
\* its first node started to run, finished_at is not earlier than the end of
\* its last node, and started_at <= finished_at.
C34_RecordCoversExecution ==
    \A b \in Done :
        \A r \in RecordsOf(b) :
            /\ r.finished_at # "None"
            /\ parse_from_rfc3339(r.started_at) <= parse_from_rfc3339(r.finished_at)
            /\ builds[b].ran # <<>> =>
                  /\ parse_from_rfc3339(r.started_at) <= NodeStart(1)
                  /\ parse_from_rfc3339(r.finished_at) >= NodeEnd(Len(builds[b].ran))

\* C35: a build task holds no lock of the store while execute_build runs: it
\* is among the writers only once execute_build has returned, and never among
\* the readers; the appends of the builds are serialized (one writer at a
\* time) and every build that has pushed has its record in build_history.
C35_BuildRunsUnlocked ==
    /\ \A b \in DOMAIN builds :
          /\ BuildHolder(b) \notin lock.readers
          /\ BuildHolder(b) \in lock.writers => builds[b].pc \in {"locked", "saving"}
          /\ builds[b].pc \in {"sort", "run", "record"} =>
                BuildHolder(b) \notin lock.writers
    /\ Cardinality({b \in DOMAIN builds : BuildHolder(b) \in lock.writers}) <= 1
    /\ \A b \in Done : RecordsOf(b) # {}
    /\ Len(shared_data.build_history) = Cardinality(Done)

\* C35 witness: the session that started a build has had its next message, a
\* SaveWorkflow, committed and saved while the build was still running its
\* node; the lock is free.
C35_Witness ==
    /\ Len(builds) = 1
    /\ builds[1].pc = "run"
    /\ builds[1].req = 1
    /\ sessions[builds[1].session].handled = 2
    /\ sessions[builds[1].session].pc = "read"
    /\ shared_data.workflows # <<>>
    /\ disk.result = "ok"
    /\ lock = [writers |-> {}, readers |-> {}]

\* The collection a Save or Delete message is about, and the entry a Save
\* message submits.
CollectionOf(m) ==
    IF m.type \in {"SaveWorkflow", "DeleteWorkflow"}
    THEN shared_data.workflows ELSE shared_data.actions

Submitted(m) == [id |-> m.id, content |-> m.body]

IsSave(m) == m.type \in {"SaveWorkflow", "SaveAction"}

IsDelete(m) == m.type \in {"DeleteWorkflow", "DeleteAction"}

\* Sessions s and t have each handled one message, both about the same id of
\* the same collection, and nothing is in progress.
Raced(s, t) ==
    /\ s # t
    /\ \A u \in {s, t} : /\ sessions[u].pc = "read"
                         /\ sessions[u].recv = 1
                         /\ sessions[u].handled = 1
    /\ lock.writers = {}
    /\ sessions[s].msg.id = sessions[t].msg.id
    /\ (sessions[s].msg.type \in {"SaveWorkflow", "DeleteWorkflow"})
          = (sessions[t].msg.type \in {"SaveWorkflow", "DeleteWorkflow"})

\* C36: concurrent saves of one id leave exactly one entry with that id, with
\* the value of the session that took the write lock last (while a session is
\* still inside its save the entry is the one it submitted; afterwards it is
\* one of the two submitted); a concurrent save and delete of one id leave
\* either that one entry or none; and the file of a last save that succeeded
\* decodes to the collection in memory.
C36_ConcurrentSavesSerialize ==
    /\ \A s \in Sessions :
          (sessions[s].pc = "saving" /\ IsSave(sessions[s].msg)) =>
              /\ SelectSeq(CollectionOf(sessions[s].msg),
                           LAMBDA e : e.id = sessions[s].msg.id)
                    = <<Submitted(sessions[s].msg)>>
              /\ sessions[s].content = to_string_pretty(shared_data)
    /\ \A s, t \in Sessions :
          Raced(s, t) =>
              LET coll == SelectSeq(CollectionOf(sessions[s].msg),
                                    LAMBDA e : e.id = sessions[s].msg.id)
              IN  /\ (IsSave(sessions[s].msg) /\ IsSave(sessions[t].msg)) =>
                        coll \in {<<Submitted(sessions[s].msg)>>,
                                  <<Submitted(sessions[t].msg)>>}
                  /\ (IsSave(sessions[s].msg) /\ IsDelete(sessions[t].msg)) =>
                        coll \in {<<Submitted(sessions[s].msg)>>, <<>>}
                  /\ disk.result = "ok" =>
                        load(disk) = [ok |-> TRUE, data |-> shared_data]

\* C36 witness: session 1 has saved workflow w1 with content x and session 2
\* with content y; session 2 took the write lock last, its save succeeded, and
\* memory and file hold y.
C36_Witness ==
    /\ Raced(1, 2)
    /\ sessions[1].msg = Msg("SaveWorkflow", "w1", "x")
    /\ sessions[2].msg = Msg("SaveWorkflow", "w1", "y")
    /\ shared_data.workflows = <<StoredWorkflow("w1", "y")>>
    /\ disk.result = "ok"
    /\ load(disk).data.workflows = <<StoredWorkflow("w1", "y")>>

\* The scripts of the script nodes of a task that have been started, in the
\* order they ran.
OwnScripts(task) ==
    LET nodes == SelectSeq(task.order, LAMBDA n : n.node_type = "script")
    IN  [k \in DOMAIN nodes |-> nodes[k].config]

\* C37: the shell of a script node runs the script declared in the node's own
\* configuration, and the cleanup of the node removes no file holding another
\* build's script, whatever other builds do in the same working directory.
C37_ScriptsIsolated ==
    \A b \in DOMAIN builds :
        /\ \A k \in DOMAIN builds[b].shell :
              builds[b].shell[k] = OwnScripts(builds[b])[k]
        /\ \A k \in DOMAIN builds[b].removed :
              builds[b].removed[k] \in {OwnScripts(builds[b])[k], NotFound}

\* Session s makes a step of the arm of a message of one of the types.
Handles(s, types) ==
    /\ sessions[s].pc # "read"
    /\ sessions[s].msg.type \in types
    /\ sessions'[s] # sessions[s]

\* Build task b pushes its record.
Pushes(b) ==
    /\ b \in DOMAIN builds
    /\ builds[b].pc = "locked"
    /\ builds'[b].pc = "saving"

\* C38: each mutating message changes its own collection only. A step of a
\* SaveWorkflow or DeleteWorkflow arm leaves actions, repos and build_history
\* as they are, a step of a SaveAction or DeleteAction arm leaves workflows,
\* repos and build_history, the push of a build record leaves workflows,
\* actions and repos; the arms of Ping, SyncRequest, RunAction and BuildCancel
\* leave the whole aggregate; a collection changes only in a step of one of
\* its own arms, and repos never changes.
C38_FrameEffects ==
    [][/\ shared_data'.repos = shared_data.repos
       /\ \A s \in Sessions :
             /\ Handles(s, {"SaveWorkflow", "DeleteWorkflow"}) =>
                   /\ shared_data'.actions = shared_data.actions
                   /\ shared_data'.build_history = shared_data.build_history
             /\ Handles(s, {"SaveAction", "DeleteAction"}) =>
                   /\ shared_data'.workflows = shared_data.workflows
                   /\ shared_data'.build_history = shared_data.build_history
             /\ Handles(s, {"Ping", "SyncRequest", "RunAction", "BuildCancel"}) =>
                   shared_data' = shared_data
       /\ \A b \in DOMAIN builds :
             Pushes(b) => /\ shared_data'.workflows = shared_data.workflows
                          /\ shared_data'.actions = shared_data.actions
       /\ shared_data'.workflows # shared_data.workflows =>
             \E s \in Sessions : Handles(s, {"SaveWorkflow", "DeleteWorkflow"})
       /\ shared_data'.actions # shared_data.actions =>
             \E s \in Sessions : Handles(s, {"SaveAction", "DeleteAction"})
       /\ shared_data'.build_history # shared_data.build_history =>
             \E b \in DOMAIN builds : Pushes(b)]_vars

\* C38 witness: a DeleteAction has removed the one action of a full store and
\* is about to save; the workflow, the repo and the build record are there as
\* before.
C38_Witness ==
    /\ sessions[1].msg.type = "DeleteAction"
    /\ sessions[1].pc = "saving"
    /\ shared_data = [FullStore EXCEPT !.actions = <<>>]

\* C39: the credential of a build is the github_token of its BuildStart
\* payload when there is one, otherwise the token the server was started with;
\* a release node that has run was skipped exactly when the payload and the
\* server both have none; and the token a connection holds for the server
\* never changes, whatever the payloads carry.
C39_PublishCredential ==
    [][/\ \A s \in Sessions : sessions'[s].github_token = sessions[s].github_token
       /\ \A b \in DOMAIN builds' :
             LET task   == builds'[b]
                 server == sessions[task.session].github_token
             IN  /\ task.token = IF task.github_token # "None"
                                 THEN task.github_token ELSE server
                 /\ \A k \in RanOfType(task, "release") :
                       (task.order[k].id \in {task.warned[i] : i \in DOMAIN task.warned})
                       <=> (task.github_token = "None" /\ server = "None")]_vars

\* C39 witness: on a server started with a token, the build whose payload
\* carries one has run its release node with the payload's token and the build
\* whose payload carries none with the server's; neither was skipped.
C39_Witness ==
    /\ Len(builds) = 2
    /\ builds[1].github_token = "payload token"
    /\ builds[1].token = "payload token"
    /\ builds[2].github_token = "None"
    /\ builds[2].token = "server token"
    /\ \A b \in {1, 2} : builds[b].ran = <<"A">> /\ builds[b].warned = <<>>
    /\ \A s \in Sessions : sessions[s].github_token = "server token"

\* The registered connection with an id, as a set (empty when there is none).
Registered(list, server_id) ==
    {list[i] : i \in {j \in DOMAIN list : list[j].id = server_id}}

\* The registry and the connect_server calls agree: a call that is connecting
\* holds a Connecting connection that is not registered, a call that failed an
\* Offline one that is not registered, a call that is past connect an Online
\* one, registered once the call has returned Ok; every registered connection
\* is Online or Offline.
RegistryOk ==
    /\ \A i \in DOMAIN servers : servers[i].status \in {"online", "offline"}
    /\ \A c \in DOMAIN connects :
          /\ connects[c].pc = "connect" => connects[c].server.status = "connecting"
          /\ connects[c].pc = "err" => connects[c].server.status = "offline"
          /\ connects[c].pc \in {"lock", "ok"} => connects[c].server.status = "online"
          /\ (Registered(servers, connects[c].server.id) # {}) <=> connects[c].pc = "ok"
    /\ \A i \in DOMAIN servers : \E c \in DOMAIN connects : connects[c].server.id = servers[i].id

\* C40: a registered connection is never Connecting, and is registered only
\* after its connect has succeeded; a step that changes the status of a
\* registered connection sets it to Offline and keeps every entry; a
\* start_build returns Ok exactly for the id of a registered connection that is
\* Online, and leaves the registry as it is.
C40_ConnectionRegistry ==
    [][/\ RegistryOk'
       /\ Len(servers') = Len(servers) =>
             \A i \in DOMAIN servers :
                 /\ servers'[i].id = servers[i].id
                 /\ servers'[i].status \in {servers[i].status, "offline"}
       /\ Len(servers') # Len(servers) =>
             /\ Len(servers') = Len(servers) + 1
             /\ SubSeq(servers', 1, Len(servers)) = servers
             /\ servers'[Len(servers')].status = "online"
       /\ returned' # returned =>
             /\ servers' = servers
             /\ SubSeq(returned', 1, Len(returned)) = returned
             /\ Len(returned') = Len(returned) + 1
             /\ LET r == returned'[Len(returned')]
                IN  /\ r.ok <=> \E e \in Registered(servers, r.server_id) :
                                    e.status = "online"
                    /\ r.ok => r.value = "build id"
                    /\ ~r.ok => r.value \in {"Server not found", "Server is not online"}]_vars

\* C40 witness: one connection is registered and has been disconnected, a
\* second connect is still connecting and is not registered; start_build has
\* returned a build id for the first while it was Online and an error after it
\* went Offline.
C40_Witness ==
    /\ servers = <<[id |-> 1, status |-> "offline"]>>
    /\ Len(connects) = 2
    /\ connects[2].pc = "connect"
    /\ connects[2].server.status = "connecting"
    /\ returned = <<[server_id |-> 1, ok |-> TRUE, value |-> "build id"],
                    [server_id |-> 1, ok |-> FALSE, value |-> "Server is not online"]>>
====
